---- MODULE Spec2Model ----
(***************************************************************************)
(* A model of the barthez DNS codec: the 512-octet PacketBuffer with its   *)
(* cursor, the domain-name reader and writer, and the Header, Question,    *)
(* Record and Packet codecs built on it.  The repository holds two copies  *)
(* of the buffer reader: the library one (packet.rs) and the one of the    *)
(* stand-alone binary (main.rs); the definitions of the latter carry the   *)
(* prefix main_.                                                           *)
(*                                                                         *)
(* A buffer is a record [bytes, pos]: bytes its 512 octets, kept as 32     *)
(* rows of 16 (octet(bytes, n) is the octet at index n of the Rust array), *)
(* pos the cursor.  Every operation is an operator from a buffer (and its  *)
(* arguments) to a record [b, tag, val]: the buffer it leaves, and its     *)
(* result Ok(val), Err(val) or, for an index out of bounds, Panic.         *)
(* Strings are sequences of octets (ASCII codes).                          *)
(***************************************************************************)
EXTENDS Integers, Sequences, FiniteSets, TLC

VARIABLES
    bytes,      \* PacketBuffer.bytes
    pos,        \* PacketBuffer.pos
    op,         \* the operation that produced this state
    args,       \* its arguments
    ret,        \* its result: [tag, val]
    pre,        \* the buffer [bytes, pos] the operation started from
    nops,       \* number of operations applied so far
    q,          \* the local variables of a read_qname call in progress
    srv         \* the server: handle_query and the recursive_lookup calls in progress

vars == <<bytes, pos, op, args, ret, pre, nops, q, srv>>

----------------------------------------------------------------------------
(* Program constants *)

\* [u8; 512]
BUF_SIZE == 512

\* crate::globals::MAX_JUMPS
MAX_JUMPS == 5

\* let max_jumps = 5;
main_max_jumps == 5

----------------------------------------------------------------------------
(* Sequencing.  K of the value of e: e is taken from a set of one, which   *)
(* has it computed once however often K refers to it.                      *)

Bind(e, K(_)) == CHOOSE y \in {K(x) : x \in {e}} : TRUE

----------------------------------------------------------------------------
(* Rust's integer operators on unsigned values *)

RECURSIVE BitAnd(_, _)
BitAnd(a, b) ==
    Bind(<<a, b>>, LAMBDA x :
        IF x[1] = 0 \/ x[2] = 0 THEN 0
        ELSE (x[1] % 2) * (x[2] % 2) + 2 * BitAnd(x[1] \div 2, x[2] \div 2))

RECURSIVE BitOr(_, _)
BitOr(a, b) ==
    Bind(<<a, b>>, LAMBDA x :
        IF x[1] = 0 THEN x[2]
        ELSE IF x[2] = 0 THEN x[1]
        ELSE (IF x[1] % 2 = 1 \/ x[2] % 2 = 1 THEN 1 ELSE 0)
             + 2 * BitOr(x[1] \div 2, x[2] \div 2))

RECURSIVE BitXor(_, _)
BitXor(a, b) ==
    Bind(<<a, b>>, LAMBDA x :
        IF x[1] = 0 THEN x[2]
        ELSE IF x[2] = 0 THEN x[1]
        ELSE ((x[1] + x[2]) % 2) + 2 * BitXor(x[1] \div 2, x[2] \div 2))

\* x << n on a w-bit unsigned: the bits shifted out are dropped
Shl(x, n, w) == (x * (2 ^ n)) % (2 ^ w)

\* x >> n
Shr(x, n) == x \div (2 ^ n)

\* `as u8`, `as u16`
AsU8(x) == x % 256
AsU16(x) == x % 65536

\* bool as u8
BoolU8(f) == IF f THEN 1 ELSE 0

----------------------------------------------------------------------------
(* Results *)

Ok(b, v) == [b |-> b, tag |-> "Ok", val |-> v]
Err(b, e) == [b |-> b, tag |-> "Err", val |-> e]
Panic(b) == [b |-> b, tag |-> "Panic", val |-> "index out of bounds"]

IsOk(r) == r.tag = "Ok"
IsErr(r, e) == r.tag = "Err" /\ r.val = e

\* The `?` operator: continue with an Ok result, return any other at once
Try(r, K(_)) == Bind(r, LAMBDA x : IF IsOk(x) THEN K(x) ELSE x)

----------------------------------------------------------------------------
(* PacketBuffer (packet.rs) *)

\* bytes[n]
octet(bs, n) == bs[(n \div 16) + 1][(n % 16) + 1]

\* bytes[n] = v
with_octet(bs, n, v) == [bs EXCEPT ![(n \div 16) + 1][(n % 16) + 1] = v]

\* the array whose octet at index n is f[n + 1]
Rows(f) == [r \in 1 .. BUF_SIZE \div 16 |-> [c \in 1 .. 16 |-> f[16 * (r - 1) + c]]]

\* PacketBuffer::new
new == [bytes |-> Rows([i \in 1 .. BUF_SIZE |-> 0]), pos |-> 0]

\* From<[u8; 512]>
from(bs) == [bytes |-> bs, pos |-> 0]

check_pos(b) ==
    IF b.pos >= 512 THEN Err(b, "PacketBufferOver512") ELSE Ok(b, 0)

get(b, n) ==
    IF n >= 512 THEN Err(b, "PacketBufferOver512") ELSE Ok(b, octet(b.bytes, n))

step(b, n) == [b EXCEPT !.pos = b.pos + n]

seek(b, n) ==
    IF n >= 512 THEN Err(b, "PacketBufferOver512")
    ELSE Ok([b EXCEPT !.pos = n], 0)

\* get_range accepting a range that ends at 512
get_range_to_the_end(b, start, len) ==
    IF start + len > 512 THEN Err(b, "PacketBufferOver512")
    ELSE Ok(b, [i \in 1 .. len |-> octet(b.bytes, start + i - 1)])


get_range(b, start, len) ==
    IF start + len >= 512 THEN Err(b, "PacketBufferOver512")
    ELSE Ok(b, [i \in 1 .. len |-> octet(b.bytes, start + i - 1)])

read_u8(b) ==
    IF ~IsOk(check_pos(b)) THEN check_pos(b)
    ELSE Ok(step(b, 1), octet(b.bytes, b.pos))

\* read_u16 with the octets in the other order
read_u16_little_endian(b) ==
    IF ~IsOk(check_pos(b)) THEN check_pos(b)
    ELSE LET first == read_u8(b) IN
         IF ~IsOk(first) THEN first
         ELSE LET second == read_u8(first.b) IN
              IF ~IsOk(second) THEN second
              ELSE Ok(second.b, BitOr(Shl(second.val, 8, 16), first.val))


read_u16(b) ==
    IF ~IsOk(check_pos(b)) THEN check_pos(b)
    ELSE LET first == read_u8(b) IN
         IF ~IsOk(first) THEN first
         ELSE LET second == read_u8(first.b) IN
              IF ~IsOk(second) THEN second
              ELSE Ok(second.b, BitOr(Shl(first.val, 8, 16), second.val))

\* A u32 is held as its two 16-bit halves <<high, low>>: the integers of the
\* model checker are 32-bit signed.  (one << 24) | (two << 16) is the high
\* half (one << 8) | two, and (three << 8) | four the low half.
U32(high, low) == <<high, low>>

read_u32(b) ==
    IF ~IsOk(check_pos(b)) THEN check_pos(b)
    ELSE LET one == read_u8(b) IN
         IF ~IsOk(one) THEN one
         ELSE LET two == read_u8(one.b) IN
         IF ~IsOk(two) THEN two
         ELSE LET three == read_u8(two.b) IN
         IF ~IsOk(three) THEN three
         ELSE LET four == read_u8(three.b) IN
         IF ~IsOk(four) THEN four
         ELSE Ok(four.b, U32(BitOr(Shl(one.val, 8, 16), two.val),
                             BitOr(Shl(three.val, 8, 16), four.val)))

----------------------------------------------------------------------------
(* Strings *)

\* String::from_utf8_lossy, one code point per octet.  An ASCII octet is its
\* own code point.  The octets >= 0x80 that the buffers of this model hold
\* (0xC0, 0xC1, 0xFF) can start or continue no UTF-8 sequence, so each
\* becomes U+FFFD.
from_utf8_lossy(bs) == [i \in 1 .. Len(bs) |-> IF bs[i] < 128 THEN bs[i] ELSE 65533]

\* str::to_lowercase on those code points
to_lowercase(s) == [i \in 1 .. Len(s) |-> IF s[i] >= 65 /\ s[i] <= 90 THEN s[i] + 32 ELSE s[i]]

\* str::split('.'): the labels of a name, in order ("" splits into one
\* empty label)
RECURSIVE split(_)
split(s) ==
    IF \A i \in 1 .. Len(s) : s[i] # 46 THEN <<s>>
    ELSE LET k == CHOOSE i \in 1 .. Len(s) : s[i] = 46 /\ \A j \in 1 .. i - 1 : s[j] # 46
         IN  <<SubSeq(s, 1, k - 1)>> \o split(SubSeq(s, k + 1, Len(s)))

----------------------------------------------------------------------------
(* PacketBuffer::read_qname (packet.rs) *)

\* the locals of read_qname before its loop
read_qname_init(b) ==
    [local_pos |-> b.pos, jumps |-> 0, jumped |-> FALSE, delim |-> <<>>,
     output |-> <<>>, status |-> "loop", err |-> ""]

\* a `?` that returns early from read_qname
qname_fail(b, l, r) ==
    [b |-> b, l |-> [l EXCEPT !.status = IF r.tag = "Panic" THEN "panic" ELSE "err",
                              !.err = r.val]]

\* the loop body without its count of the pointers followed: what the
\* MAX_JUMPS check protects against
read_qname_iter_uncounted(b, l) ==
    LET label_len == get(b, l.local_pos) IN
    IF ~IsOk(label_len) THEN qname_fail(b, l, label_len)
    ELSE IF BitAnd(label_len.val, 192) = 192
    THEN LET sk == IF ~l.jumped THEN seek(b, l.local_pos + 2) ELSE Ok(b, 0) IN
         IF ~IsOk(sk) THEN qname_fail(b, l, sk)
         ELSE LET nxt == get(sk.b, l.local_pos + 1) IN
              IF ~IsOk(nxt) THEN qname_fail(sk.b, l, nxt)
              ELSE LET offset == BitOr(Shl(BitXor(label_len.val, 192), 8, 16), nxt.val)
                   IN  [b |-> sk.b, l |-> [l EXCEPT !.local_pos = offset, !.jumped = TRUE]]
    ELSE IF label_len.val = 0
    THEN [b |-> b, l |-> [l EXCEPT !.local_pos = l.local_pos + 1, !.status = "break"]]
    ELSE LET l1 == [l EXCEPT !.local_pos = l.local_pos + 1,
                             !.output = l.output \o l.delim]
             label_bytes == get_range(b, l1.local_pos, label_len.val)
         IN  IF ~IsOk(label_bytes) THEN qname_fail(b, l1, label_bytes)
             ELSE [b |-> b,
                   l |-> [l1 EXCEPT !.output = l1.output \o to_lowercase(from_utf8_lossy(label_bytes.val)),
                                    !.delim = <<46>>,
                                    !.local_pos = l1.local_pos + label_len.val]]

\* the loop body that never sets the delimiter: the labels are not dot-joined
read_qname_iter_undotted(b, l) ==
    IF l.jumps >= MAX_JUMPS
    THEN [b |-> b, l |-> [l EXCEPT !.status = "err", !.err = "MaxJumpsAttained"]]
    ELSE
    LET label_len == get(b, l.local_pos) IN
    IF ~IsOk(label_len) THEN qname_fail(b, l, label_len)
    ELSE IF BitAnd(label_len.val, 192) = 192
    THEN LET sk == IF ~l.jumped THEN seek(b, l.local_pos + 2) ELSE Ok(b, 0) IN
         IF ~IsOk(sk) THEN qname_fail(b, l, sk)
         ELSE LET nxt == get(sk.b, l.local_pos + 1) IN
              IF ~IsOk(nxt) THEN qname_fail(sk.b, l, nxt)
              ELSE LET offset == BitOr(Shl(BitXor(label_len.val, 192), 8, 16), nxt.val)
                   IN  [b |-> sk.b,
                        l |-> [l EXCEPT !.local_pos = offset, !.jumped = TRUE,
                                        !.jumps = l.jumps + 1]]
    ELSE IF label_len.val = 0
    THEN [b |-> b, l |-> [l EXCEPT !.local_pos = l.local_pos + 1, !.status = "break"]]
    ELSE LET l1 == [l EXCEPT !.local_pos = l.local_pos + 1,
                             !.output = l.output \o l.delim]
             label_bytes == get_range(b, l1.local_pos, label_len.val)
         IN  IF ~IsOk(label_bytes) THEN qname_fail(b, l1, label_bytes)
             ELSE [b |-> b,
                   l |-> [l1 EXCEPT !.output = l1.output \o to_lowercase(from_utf8_lossy(label_bytes.val)),
                                    !.local_pos = l1.local_pos + label_len.val]]


\* one iteration of the loop of read_qname
read_qname_iter(b, l) ==
    IF l.jumps >= MAX_JUMPS
    THEN [b |-> b, l |-> [l EXCEPT !.status = "err", !.err = "MaxJumpsAttained"]]
    ELSE
    LET label_len == get(b, l.local_pos) IN
    IF ~IsOk(label_len) THEN qname_fail(b, l, label_len)
    ELSE IF BitAnd(label_len.val, 192) = 192
    THEN LET sk == IF ~l.jumped THEN seek(b, l.local_pos + 2) ELSE Ok(b, 0) IN
         IF ~IsOk(sk) THEN qname_fail(b, l, sk)
         ELSE LET nxt == get(sk.b, l.local_pos + 1) IN
              IF ~IsOk(nxt) THEN qname_fail(sk.b, l, nxt)
              ELSE LET offset == BitOr(Shl(BitXor(label_len.val, 192), 8, 16), nxt.val)
                   IN  [b |-> sk.b,
                        l |-> [l EXCEPT !.local_pos = offset, !.jumped = TRUE,
                                        !.jumps = l.jumps + 1]]
    ELSE IF label_len.val = 0
    THEN [b |-> b, l |-> [l EXCEPT !.local_pos = l.local_pos + 1, !.status = "break"]]
    ELSE LET l1 == [l EXCEPT !.local_pos = l.local_pos + 1,
                             !.output = l.output \o l.delim]
             label_bytes == get_range(b, l1.local_pos, label_len.val)
         IN  IF ~IsOk(label_bytes) THEN qname_fail(b, l1, label_bytes)
             ELSE [b |-> b,
                   l |-> [l1 EXCEPT !.output = l1.output \o to_lowercase(from_utf8_lossy(label_bytes.val)),
                                    !.delim = <<46>>,
                                    !.local_pos = l1.local_pos + label_len.val]]

\* what follows the loop, with the cursor moved to where the reading ended
\* even after a pointer was followed
read_qname_end_seek_always(b, l) ==
    IF l.status = "panic" THEN Panic(b)
    ELSE IF l.status = "err" THEN Err(b, l.err)
    ELSE LET sk == seek(b, l.local_pos) IN
         IF ~IsOk(sk) THEN sk ELSE Ok(sk.b, l.output)


\* what follows the loop of read_qname: the final seek and the return
read_qname_end(b, l) ==
    IF l.status = "panic" THEN Panic(b)
    ELSE IF l.status = "err" THEN Err(b, l.err)
    ELSE LET sk == IF ~l.jumped THEN seek(b, l.local_pos) ELSE Ok(b, 0) IN
         IF ~IsOk(sk) THEN sk ELSE Ok(sk.b, l.output)

RECURSIVE read_qname_loop(_, _)
read_qname_loop(b, l) ==
    IF l.status # "loop" THEN [b |-> b, l |-> l]
    ELSE Bind(read_qname_iter(b, l), LAMBDA s : read_qname_loop(s.b, s.l))

read_qname(b) ==
    Bind(read_qname_loop(b, read_qname_init(b)), LAMBDA s : read_qname_end(s.b, s.l))

----------------------------------------------------------------------------
(* PacketBuffer of the stand-alone binary (main.rs) *)

\* get, its bound check commented out: bytes[n] panics when n >= 512
main_get(b, n) ==
    IF n >= 512 THEN Panic(b) ELSE Ok(b, octet(b.bytes, n))

\* one iteration of the loop of read_qname
main_read_qname_iter(b, l) ==
    IF l.jumps > main_max_jumps
    THEN [b |-> b, l |-> [l EXCEPT !.status = "err", !.err = "MaxJumpsAttained"]]
    ELSE
    LET len == main_get(b, l.local_pos) IN
    IF ~IsOk(len) THEN qname_fail(b, l, len)
    ELSE IF BitAnd(len.val, 192) = 192
    THEN LET sk == IF ~l.jumped THEN seek(b, l.local_pos + 2) ELSE Ok(b, 0) IN
         IF ~IsOk(sk) THEN qname_fail(b, l, sk)
         ELSE LET b2 == main_get(sk.b, l.local_pos + 1) IN
              IF ~IsOk(b2) THEN qname_fail(sk.b, l, b2)
              ELSE LET offset == BitOr(Shl(BitXor(len.val, 192), 8, 16), b2.val)
                   IN  [b |-> sk.b,
                        l |-> [l EXCEPT !.local_pos = offset, !.jumped = TRUE,
                                        !.jumps = l.jumps + 1]]
    ELSE IF len.val = 0
    THEN [b |-> b, l |-> [l EXCEPT !.local_pos = l.local_pos + 1, !.status = "break"]]
    ELSE LET l1 == [l EXCEPT !.local_pos = l.local_pos + 1,
                             !.output = l.output \o l.delim]
             str_buffer == get_range(b, l1.local_pos, len.val)
         IN  IF ~IsOk(str_buffer) THEN qname_fail(b, l1, str_buffer)
             ELSE [b |-> b,
                   l |-> [l1 EXCEPT !.output = l1.output \o to_lowercase(from_utf8_lossy(str_buffer.val)),
                                    !.delim = <<46>>,
                                    !.local_pos = l1.local_pos + len.val]]

RECURSIVE main_read_qname_loop(_, _)
main_read_qname_loop(b, l) ==
    IF l.status # "loop" THEN [b |-> b, l |-> l]
    ELSE Bind(main_read_qname_iter(b, l), LAMBDA s : main_read_qname_loop(s.b, s.l))

main_read_qname(b) ==
    Bind(main_read_qname_loop(b, read_qname_init(b)), LAMBDA s : read_qname_end(s.b, s.l))

----------------------------------------------------------------------------
(* PacketBuffer: writing (packet.rs) *)

write_u8(b, value) ==
    IF ~IsOk(check_pos(b)) THEN check_pos(b)
    ELSE Ok([bytes |-> with_octet(b.bytes, b.pos, value), pos |-> b.pos + 1], 0)

\* write_u16 with the octets in the other order
write_u16_little_endian(b, value) ==
    LET lo == write_u8(b, AsU8(BitAnd(value, 255))) IN
    IF ~IsOk(lo) THEN lo ELSE write_u8(lo.b, AsU8(Shr(value, 8)))


write_u16(b, value) ==
    LET hi == write_u8(b, AsU8(Shr(value, 8))) IN
    IF ~IsOk(hi) THEN hi ELSE write_u8(hi.b, AsU8(BitAnd(value, 255)))

write_u32(b, value) ==
    LET w1 == write_u8(b, AsU8(Shr(value[1], 8))) IN
    IF ~IsOk(w1) THEN w1
    ELSE LET w2 == write_u8(w1.b, AsU8(BitAnd(value[1], 255))) IN
    IF ~IsOk(w2) THEN w2
    ELSE LET w3 == write_u8(w2.b, AsU8(BitAnd(Shr(value[2], 8), 255))) IN
    IF ~IsOk(w3) THEN w3
    ELSE write_u8(w3.b, AsU8(BitAnd(value[2], 255)))

\* write_u8 of each octet of bs in turn, stopping at the first error: the
\* octets of the first half of bs, then those of the second
RECURSIVE write_all(_, _)
write_all(b, bs) ==
    IF bs = <<>> THEN Ok(b, 0)
    ELSE IF Len(bs) = 1 THEN write_u8(b, bs[1])
    ELSE Try(write_all(b, SubSeq(bs, 1, Len(bs) \div 2)), LAMBDA w :
         write_all(w.b, SubSeq(bs, Len(bs) \div 2 + 1, Len(bs))))

\* write_qname refusing only the labels of more than 63 octets
RECURSIVE write_labels_over_63(_, _)
write_labels_over_63(b, labels) ==
    IF labels = <<>> THEN Ok(b, 0)
    ELSE Bind(Head(labels), LAMBDA label :
         IF Len(label) > 63 THEN Err(b, "LabelLengthOver63")
         ELSE Try(write_u8(b, AsU8(Len(label))), LAMBDA w :
              Try(write_all(w.b, label), LAMBDA ws :
              write_labels_over_63(ws.b, Tail(labels)))))

write_qname_over_63(b, qname) ==
    Bind(split(qname), LAMBDA labels :
    Try(write_labels_over_63(b, labels), LAMBDA ws : write_u8(ws.b, 0)))

\* the `for label in qname.split('.')` loop of write_qname
RECURSIVE write_labels(_, _)
write_labels(b, labels) ==
    IF labels = <<>> THEN Ok(b, 0)
    ELSE Bind(Head(labels), LAMBDA label :
         IF Len(label) >= 63 THEN Err(b, "LabelLengthOver63")
         ELSE Try(write_u8(b, AsU8(Len(label))), LAMBDA w :
              Try(write_all(w.b, label), LAMBDA ws :
              write_labels(ws.b, Tail(labels)))))

write_qname(b, qname) ==
    Bind(split(qname), LAMBDA labels :
    Try(write_labels(b, labels), LAMBDA ws : write_u8(ws.b, 0)))

set_u8(b, p, value) ==
    IF p >= 512 THEN Err(b, "PacketBufferOver512")
    ELSE Ok([b EXCEPT !.bytes = with_octet(b.bytes, p, value)], 0)

set_u16(b, p, value) ==
    LET s1 == set_u8(b, p, AsU8(BitAnd(Shr(value, 8), 255))) IN
    IF ~IsOk(s1) THEN s1 ELSE set_u8(s1.b, p, AsU8(BitAnd(value, 255)))

----------------------------------------------------------------------------
(* ResultCode (result.rs) *)

ResultCodes == {"NoError", "FormErr", "ServFail", "NXDomain", "NotImp", "Refused"}

\* ResultCode as u8
ResultCode_as_u8(c) ==
    CASE c = "NoError" -> 0
      [] c = "FormErr" -> 1
      [] c = "ServFail" -> 2
      [] c = "NXDomain" -> 3
      [] c = "NotImp" -> 4
      [] c = "Refused" -> 5

\* From<u8> for ResultCode
ResultCode_from(value) ==
    CASE value = 1 -> "FormErr"
      [] value = 2 -> "ServFail"
      [] value = 3 -> "NXDomain"
      [] value = 4 -> "NotImp"
      [] value = 5 -> "Refused"
      [] OTHER -> "NoError"

----------------------------------------------------------------------------
(* Header (header.rs) *)

\* Default for Header
Header_default ==
    [id |-> 6666, is_response |-> FALSE, op_code |-> 0, is_authoritative |-> FALSE,
     is_truncated |-> FALSE, recursion_desired |-> FALSE, recursion_available |-> FALSE,
     z |-> 0, response_code |-> "NoError", question_count |-> 0, answer_count |-> 0,
     authority_count |-> 0, additional_count |-> 0]

\* the first flags octet Header::write emits
Header_flags1(h) ==
    BitOr(BitOr(BitOr(BitOr(Shl(BoolU8(h.is_response), 7, 8), Shl(h.op_code, 3, 8)),
                      Shl(BoolU8(h.is_authoritative), 2, 8)),
                Shl(BoolU8(h.is_truncated), 1, 8)),
          BoolU8(h.recursion_desired))

\* the second flags octet Header::write emits
Header_flags2(h) ==
    BitOr(BitOr(Shl(BoolU8(h.recursion_available), 7, 8), Shl(h.z, 6, 8)),
          ResultCode_as_u8(h.response_code))

\* Header::write with the flag octets after the counts
Header_write_flags_last(b, h) ==
    Try(write_u16(b, h.id), LAMBDA w1 :
    Try(write_u16(w1.b, h.question_count), LAMBDA w4 :
    Try(write_u16(w4.b, h.answer_count), LAMBDA w5 :
    Try(write_u16(w5.b, h.authority_count), LAMBDA w6 :
    Try(write_u16(w6.b, h.additional_count), LAMBDA w7 :
    Try(write_u8(w7.b, Header_flags1(h)), LAMBDA w2 :
    Try(write_u8(w2.b, Header_flags2(h)), LAMBDA w3 :
    Ok(w3.b, 0))))))))


Header_write(b, h) ==
    Try(write_u16(b, h.id), LAMBDA w1 :
    Try(write_u8(w1.b, Header_flags1(h)), LAMBDA w2 :
    Try(write_u8(w2.b, Header_flags2(h)), LAMBDA w3 :
    Try(write_u16(w3.b, h.question_count), LAMBDA w4 :
    Try(write_u16(w4.b, h.answer_count), LAMBDA w5 :
    Try(write_u16(w5.b, h.authority_count), LAMBDA w6 :
    Try(write_u16(w6.b, h.additional_count), LAMBDA w7 :
    Ok(w7.b, 0))))))))

\* Header::try_from without the check of the cursor
Header_try_from_anywhere(b) ==
    Try(read_u16(b), LAMBDA id :
    Try(read_u8(id.b), LAMBDA byte1 :
    Try(read_u8(byte1.b), LAMBDA byte2 :
    Try(read_u16(byte2.b), LAMBDA question_count :
    Try(read_u16(question_count.b), LAMBDA answer_count :
    Try(read_u16(answer_count.b), LAMBDA authority_count :
    Try(read_u16(authority_count.b), LAMBDA additional_count :
    Ok(additional_count.b,
       [id |-> id.val,
        is_response |-> BitAnd(byte1.val, 128) # 0,
        op_code |-> Shr(BitAnd(byte1.val, 116), 3),
        is_authoritative |-> BitAnd(byte1.val, 4) # 0,
        is_truncated |-> BitAnd(byte1.val, 2) # 0,
        recursion_desired |-> BitAnd(byte1.val, 1) # 0,
        recursion_available |-> BitAnd(byte2.val, 128) # 0,
        z |-> Shr(BitAnd(byte2.val, 112), 5),
        response_code |-> ResultCode_from(BitAnd(byte2.val, 15)),
        question_count |-> question_count.val,
        answer_count |-> answer_count.val,
        authority_count |-> authority_count.val,
        additional_count |-> additional_count.val]))))))))


Header_try_from(b) ==
    IF b.pos # 0 THEN Err(b, "PacketBufferInvalidPosition")
    ELSE
    Try(read_u16(b), LAMBDA id :
    Try(read_u8(id.b), LAMBDA byte1 :
    Try(read_u8(byte1.b), LAMBDA byte2 :
    Try(read_u16(byte2.b), LAMBDA question_count :
    Try(read_u16(question_count.b), LAMBDA answer_count :
    Try(read_u16(answer_count.b), LAMBDA authority_count :
    Try(read_u16(authority_count.b), LAMBDA additional_count :
    Ok(additional_count.b,
       [id |-> id.val,
        is_response |-> BitAnd(byte1.val, 128) # 0,
        op_code |-> Shr(BitAnd(byte1.val, 116), 3),
        is_authoritative |-> BitAnd(byte1.val, 4) # 0,
        is_truncated |-> BitAnd(byte1.val, 2) # 0,
        recursion_desired |-> BitAnd(byte1.val, 1) # 0,
        recursion_available |-> BitAnd(byte2.val, 128) # 0,
        z |-> Shr(BitAnd(byte2.val, 112), 5),
        response_code |-> ResultCode_from(BitAnd(byte2.val, 15)),
        question_count |-> question_count.val,
        answer_count |-> answer_count.val,
        authority_count |-> authority_count.val,
        additional_count |-> additional_count.val]))))))))

----------------------------------------------------------------------------
(* RecordType (record.rs): [tag, x], x the code of an Unknown and 0 otherwise *)

RecordType(tag) == [tag |-> tag, x |-> 0]
RecordType_Unknown(x) == [tag |-> "Unknown", x |-> x]

\* From<RecordType> for u16
RecordType_into(value) ==
    CASE value.tag = "A" -> 1
      [] value.tag = "NS" -> 2
      [] value.tag = "CNAME" -> 5
      [] value.tag = "MX" -> 15
      [] value.tag = "AAAA" -> 28
      [] value.tag = "Unknown" -> value.x

\* From<u16> for RecordType without MX
RecordType_from_without_mx(value) ==
    CASE value = 1 -> RecordType("A")
      [] value = 2 -> RecordType("NS")
      [] value = 5 -> RecordType("CNAME")
      [] value = 28 -> RecordType("AAAA")
      [] OTHER -> RecordType_Unknown(value)


\* From<u16> for RecordType
RecordType_from(value) ==
    CASE value = 1 -> RecordType("A")
      [] value = 2 -> RecordType("NS")
      [] value = 5 -> RecordType("CNAME")
      [] value = 15 -> RecordType("MX")
      [] value = 28 -> RecordType("AAAA")
      [] OTHER -> RecordType_Unknown(value)

----------------------------------------------------------------------------
(* Question (question.rs) *)

Question_new(qname, qtype) == [name |-> qname, question_type |-> qtype, class |-> 1]

Question_write(b, qn) ==
    Try(write_qname(b, qn.name), LAMBDA w1 :
    Try(write_u16(w1.b, RecordType_into(qn.question_type)), LAMBDA w2 :
    Try(write_u16(w2.b, qn.class), LAMBDA w3 :
    Ok(w3.b, 0))))

Question_try_from(b) ==
    Try(read_qname(b), LAMBDA name :
    Try(read_u16(name.b), LAMBDA question_type :
    Try(read_u16(question_type.b), LAMBDA class :
    Ok(class.b, [name |-> name.val,
                 question_type |-> RecordType_from(question_type.val),
                 class |-> class.val]))))

----------------------------------------------------------------------------
(* Record (record.rs).  A record is [variant, preamble, addr, host,        *)
(* preference, exchange]; the fields its variant does not have are <<>>    *)
(* and 0.  addr holds the 4 octets of an Ipv4Addr or the 8 segments of an  *)
(* Ipv6Addr.                                                               *)

RecordPreamble(name, record_type, class, ttl, len) ==
    [name |-> name, record_type |-> record_type, class |-> class, ttl |-> ttl, len |-> len]

Record_Unknown(preamble) ==
    [variant |-> "Unknown", preamble |-> preamble, addr |-> <<>>, host |-> <<>>,
     preference |-> 0, exchange |-> <<>>]
Record_A(preamble, addr) ==
    [variant |-> "A", preamble |-> preamble, addr |-> addr, host |-> <<>>,
     preference |-> 0, exchange |-> <<>>]
Record_NS(preamble, host) ==
    [variant |-> "NS", preamble |-> preamble, addr |-> <<>>, host |-> host,
     preference |-> 0, exchange |-> <<>>]
Record_CNAME(preamble, host) ==
    [variant |-> "CNAME", preamble |-> preamble, addr |-> <<>>, host |-> host,
     preference |-> 0, exchange |-> <<>>]
Record_MX(preamble, preference, exchange) ==
    [variant |-> "MX", preamble |-> preamble, addr |-> <<>>, host |-> <<>>,
     preference |-> preference, exchange |-> exchange]
Record_AAAA(preamble, addr) ==
    [variant |-> "AAAA", preamble |-> preamble, addr |-> addr, host |-> <<>>,
     preference |-> 0, exchange |-> <<>>]

\* the part every written variant starts with: name, type, class 1, ttl
Record_write_prefix(b, r, type) ==
    Try(write_qname(b, r.preamble.name), LAMBDA w1 :
    Try(write_u16(w1.b, RecordType_into(RecordType(type))), LAMBDA w2 :
    Try(write_u16(w2.b, 1), LAMBDA w3 :
    Try(write_u32(w3.b, r.preamble.ttl), LAMBDA w4 :
    Ok(w4.b, 0)))))

\* `for segment in addr.segments() { buffer.write_u16(segment)?; }`
RECURSIVE write_segments(_, _)
write_segments(b, segs) ==
    IF segs = <<>> THEN Ok(b, 0)
    ELSE Try(write_u16(b, Head(segs)), LAMBDA w : write_segments(w.b, Tail(segs)))

\* the length computed after the RDATA is written, and its back-patch
Record_patch_len(b, p) ==
    LET size == b.pos - p + 2 IN set_u16(b, p, AsU16(size))

Record_write(b, r) ==
    CASE r.variant = "A" ->
            Try(Record_write_prefix(b, r, "A"), LAMBDA w0 :
            Try(write_u16(w0.b, 4), LAMBDA w1 :
            Try(write_u8(w1.b, r.addr[1]), LAMBDA w2 :
            Try(write_u8(w2.b, r.addr[2]), LAMBDA w3 :
            Try(write_u8(w3.b, r.addr[3]), LAMBDA w4 :
            Try(write_u8(w4.b, r.addr[4]), LAMBDA w5 :
            Ok(w5.b, 0)))))))
      [] r.variant = "NS" ->
            Try(Record_write_prefix(b, r, "NS"), LAMBDA w0 :
            Try(write_u16(w0.b, 0), LAMBDA w1 :
            Try(write_qname(w1.b, r.host), LAMBDA w2 :
            Try(Record_patch_len(w2.b, w0.b.pos), LAMBDA w3 :
            Ok(w3.b, 0)))))
      [] r.variant = "CNAME" ->
            Try(Record_write_prefix(b, r, "CNAME"), LAMBDA w0 :
            Try(write_u16(w0.b, 0), LAMBDA w1 :
            Try(write_qname(w1.b, r.host), LAMBDA w2 :
            Try(Record_patch_len(w2.b, w0.b.pos), LAMBDA w3 :
            Ok(w3.b, 0)))))
      [] r.variant = "MX" ->
            Try(Record_write_prefix(b, r, "MX"), LAMBDA w0 :
            Try(write_u16(w0.b, 0), LAMBDA w1 :
            Try(write_u16(w1.b, r.preference), LAMBDA w2 :
            Try(write_qname(w2.b, r.exchange), LAMBDA w3 :
            Try(Record_patch_len(w3.b, w0.b.pos), LAMBDA w4 :
            Ok(w4.b, 0))))))
      [] r.variant = "AAAA" ->
            Try(Record_write_prefix(b, r, "AAAA"), LAMBDA w0 :
            Try(write_u16(w0.b, 16), LAMBDA w1 :
            Try(write_segments(w1.b, r.addr), LAMBDA w2 :
            Ok(w2.b, 0))))
      [] OTHER -> Ok(b, 0)

\* the preamble Record::try_from reads first
Record_read_preamble(b) ==
    Try(read_qname(b), LAMBDA name :
    Try(read_u16(name.b), LAMBDA record_type :
    Try(read_u16(record_type.b), LAMBDA class :
    Try(read_u32(class.b), LAMBDA ttl :
    Try(read_u16(ttl.b), LAMBDA len :
    Ok(len.b, RecordPreamble(name.val, RecordType_from(record_type.val), class.val,
                             ttl.val, len.val)))))))

\* the two u16 segments of a u32
Segments(x) == <<AsU16(BitAnd(x[1], 65535)), AsU16(BitAnd(x[2], 65535))>>

Record_try_from(b) ==
    Try(Record_read_preamble(b), LAMBDA p :
    LET preamble == p.val IN
    CASE preamble.record_type.tag = "A" ->
            Try(read_u8(p.b), LAMBDA one :
            Try(read_u8(one.b), LAMBDA two :
            Try(read_u8(two.b), LAMBDA three :
            Try(read_u8(three.b), LAMBDA four :
            Ok(four.b, Record_A(preamble, <<one.val, two.val, three.val, four.val>>))))))
      [] preamble.record_type.tag = "NS" ->
            Try(read_qname(p.b), LAMBDA host : Ok(host.b, Record_NS(preamble, host.val)))
      [] preamble.record_type.tag = "CNAME" ->
            Try(read_qname(p.b), LAMBDA host : Ok(host.b, Record_CNAME(preamble, host.val)))
      [] preamble.record_type.tag = "MX" ->
            Try(read_u16(p.b), LAMBDA preference :
            Try(read_qname(preference.b), LAMBDA exchange :
            Ok(exchange.b, Record_MX(preamble, preference.val, exchange.val))))
      [] preamble.record_type.tag = "AAAA" ->
            Try(read_u32(p.b), LAMBDA one :
            Try(read_u32(one.b), LAMBDA two :
            Try(read_u32(two.b), LAMBDA three :
            Try(read_u32(three.b), LAMBDA four :
            Ok(four.b, Record_AAAA(preamble, Segments(one.val) \o Segments(two.val)
                                             \o Segments(three.val) \o Segments(four.val)))))))
      [] OTHER -> Ok(step(p.b, preamble.len), Record_Unknown(preamble)))

----------------------------------------------------------------------------
(* Packet (packet.rs) *)

Packet_default ==
    [header |-> Header_default, questions |-> <<>>, answers |-> <<>>,
     authorities |-> <<>>, additionals |-> <<>>]

\* `for question in &self.questions { question.write(buffer)?; }`
RECURSIVE write_questions(_, _)
write_questions(b, qs) ==
    IF qs = <<>> THEN Ok(b, 0)
    ELSE Try(Question_write(b, Head(qs)), LAMBDA w : write_questions(w.b, Tail(qs)))

\* `for answer in &self.answers { answer.write(buffer)?; }`, and the like
RECURSIVE write_records(_, _)
write_records(b, rs) ==
    IF rs = <<>> THEN Ok(b, 0)
    ELSE Try(Record_write(b, Head(rs)), LAMBDA w : write_records(w.b, Tail(rs)))

Packet_write(b, p) ==
    Try(Header_write(b, p.header), LAMBDA w0 :
    Try(write_questions(w0.b, p.questions), LAMBDA w1 :
    Try(write_records(w1.b, p.answers), LAMBDA w2 :
    Try(write_records(w2.b, p.authorities), LAMBDA w3 :
    Try(write_records(w3.b, p.additionals), LAMBDA w4 :
    Ok(w4.b, 0))))))

\* `for _ in 0..count { questions.push(Question::try_from(&mut buffer)?); }`
RECURSIVE read_questions(_, _, _)
read_questions(b, count, acc) ==
    IF count = 0 THEN Ok(b, acc)
    ELSE Try(Question_try_from(b), LAMBDA x : read_questions(x.b, count - 1, Append(acc, x.val)))

\* `for _ in 0..count { records.push(Record::try_from(&mut buffer)?); }`
RECURSIVE read_records(_, _, _)
read_records(b, count, acc) ==
    IF count = 0 THEN Ok(b, acc)
    ELSE Try(Record_try_from(b), LAMBDA x : read_records(x.b, count - 1, Append(acc, x.val)))

\* Packet::try_from reading as many answers as the header counts authorities
Packet_try_from_miscounted(b) ==
    Try(Header_try_from(b), LAMBDA header :
    Try(read_questions(header.b, header.val.question_count, <<>>), LAMBDA questions :
    Try(read_records(questions.b, header.val.authority_count, <<>>), LAMBDA answers :
    Try(read_records(answers.b, header.val.authority_count, <<>>), LAMBDA authorities :
    Try(read_records(authorities.b, header.val.additional_count, <<>>), LAMBDA additionals :
    Ok(additionals.b,
       [header |-> header.val, questions |-> questions.val, answers |-> answers.val,
        authorities |-> authorities.val, additionals |-> additionals.val]))))))


Packet_try_from(b) ==
    Try(Header_try_from(b), LAMBDA header :
    Try(read_questions(header.b, header.val.question_count, <<>>), LAMBDA questions :
    Try(read_records(questions.b, header.val.answer_count, <<>>), LAMBDA answers :
    Try(read_records(answers.b, header.val.authority_count, <<>>), LAMBDA authorities :
    Try(read_records(authorities.b, header.val.additional_count, <<>>), LAMBDA additionals :
    Ok(additionals.b,
       [header |-> header.val, questions |-> questions.val, answers |-> answers.val,
        authorities |-> authorities.val, additionals |-> additionals.val]))))))

----------------------------------------------------------------------------
(* Packet, the helpers of the resolver (packet.rs).  An Option is a        *)
(* sequence of no value or of one.                                          *)

add_question(p, qname, qtype) ==
    [p EXCEPT !.questions = Append(@, Question_new(qname, qtype)),
              !.header.question_count = @ + 1]

\* the address of the first A record among the answers
get_random_a(p) ==
    LET found == SelectSeq(p.answers, LAMBDA record : record.variant = "A")
    IN  IF found = <<>> THEN <<>> ELSE <<found[1].addr>>

\* str::ends_with
ends_with(s, suffix) ==
    /\ Len(suffix) <= Len(s)
    /\ SubSeq(s, Len(s) - Len(suffix) + 1, Len(s)) = suffix

\* the <<owner, host>> of the NS authorities whose owner ends qname, in order
match_ns(p, qname) ==
    LET found == SelectSeq(p.authorities,
                           LAMBDA record : /\ record.variant = "NS"
                                           /\ ends_with(qname, record.preamble.name))
    IN  [i \in 1 .. Len(found) |-> <<found[i].preamble.name, found[i].host>>]

\* get_resolved_ns taking the address of an AAAA record as well
get_resolved_ns_any_address(p, qname) ==
    LET matched == match_ns(p, qname)
        glue(host) == SelectSeq(p.additionals,
                                LAMBDA record : /\ record.variant \in {"A", "AAAA"}
                                                /\ record.preamble.name = host)
        hits == {i \in 1 .. Len(matched) : glue(matched[i][2]) # <<>>}
        first == CHOOSE i \in hits : \A j \in hits : i <= j
    IN  IF hits = {} THEN <<>> ELSE <<glue(matched[first][2])[1].addr>>


\* the address of the first additional A record owned by the host of a
\* matching NS authority, the authorities taken in order
get_resolved_ns(p, qname) ==
    LET matched == match_ns(p, qname)
        glue(host) == SelectSeq(p.additionals,
                                LAMBDA record : /\ record.variant = "A"
                                                /\ record.preamble.name = host)
        hits == {i \in 1 .. Len(matched) : glue(matched[i][2]) # <<>>}
        first == CHOOSE i \in hits : \A j \in hits : i <= j
    IN  IF hits = {} THEN <<>> ELSE <<glue(matched[first][2])[1].addr>>

\* the host of the first matching NS authority
get_unresolved_ns(p, qname) ==
    LET matched == match_ns(p, qname)
    IN  IF matched = <<>> THEN <<>> ELSE <<matched[1][2]>>

----------------------------------------------------------------------------
(* Server (server.rs).  The sockets are the environment: io says whether   *)
(* the bind, the send and the receive of a call succeed and which datagram *)
(* is received.                                                             *)

\* UdpSocket::bind of a port of the server's address while the ports of
\* bound are held by open sockets there: port 0 asks for a free one
bind(port, bound, io) ==
    IF ~io.bind \/ (port # 0 /\ port \in bound) THEN Err(new, "UDPBindFailed")
    ELSE Ok(new, port)

\* send_packet without the recursion_desired flag
send_packet_iterative(qname, qtype) == add_question(Packet_default, qname, qtype)


\* Server::lookup, the query
send_packet(qname, qtype) ==
    add_question([Packet_default EXCEPT !.header.recursion_desired = TRUE], qname, qtype)

\* Server::lookup up to its recv_from: the query written, the socket bound,
\* the query sent
lookup_send(self, qname, qtype, bound, io) ==
    Try(Packet_write(new, send_packet(qname, qtype)), LAMBDA send_buffer :
    Try(bind(self.local_port, bound, io), LAMBDA socket :
    IF ~io.send THEN Err(new, "UDPSendFailed") ELSE send_buffer))

\* Server::lookup from its recv_from: the response received and decoded
lookup_recv(io) ==
    IF ~io.recv THEN Err(new, "UDPRecvFailed") ELSE Packet_try_from(from(io.datagram))

\* handle_query_init without the copy of the request's id
handle_query_init_anonymous(request) ==
    [Packet_default EXCEPT !.header.recursion_desired = TRUE,
                           !.header.recursion_available = TRUE,
                           !.header.is_response = TRUE]


\* handle_query, the response as initialized from the request
handle_query_init(request) ==
    [Packet_default EXCEPT !.header.id = request.header.id,
                           !.header.recursion_desired = TRUE,
                           !.header.recursion_available = TRUE,
                           !.header.is_response = TRUE]

\* handle_query_found without the count of the answers
handle_query_found_uncounted(packet, question, result) ==
    [header |-> [packet.header EXCEPT
                    !.question_count = @ + 1,
                    !.response_code = result.header.response_code,
                    !.authority_count = @ + Len(result.authorities),
                    !.additional_count = @ + Len(result.additionals)],
     questions |-> Append(packet.questions, question),
     answers |-> packet.answers \o result.answers,
     authorities |-> packet.authorities \o result.authorities,
     additionals |-> packet.additionals \o result.additionals]


\* handle_query_found with the TC flag of the result copied too
handle_query_found_truncated(packet, question, result) ==
    [header |-> [packet.header EXCEPT
                    !.is_truncated = result.header.is_truncated,
                    !.question_count = @ + 1,
                    !.response_code = result.header.response_code,
                    !.answer_count = @ + Len(result.answers),
                    !.authority_count = @ + Len(result.authorities),
                    !.additional_count = @ + Len(result.additionals)],
     questions |-> Append(packet.questions, question),
     answers |-> packet.answers \o result.answers,
     authorities |-> packet.authorities \o result.authorities,
     additionals |-> packet.additionals \o result.additionals]


\* handle_query, the response after a resolution that gave result
handle_query_found(packet, question, result) ==
    [header |-> [packet.header EXCEPT
                    !.question_count = @ + 1,
                    !.response_code = result.header.response_code,
                    !.answer_count = @ + Len(result.answers),
                    !.authority_count = @ + Len(result.authorities),
                    !.additional_count = @ + Len(result.additionals)],
     questions |-> Append(packet.questions, question),
     answers |-> packet.answers \o result.answers,
     authorities |-> packet.authorities \o result.authorities,
     additionals |-> packet.additionals \o result.additionals]

\* handle_query_failed without the response code
handle_query_failed_silent(packet) == packet


\* handle_query, the response after a resolution that failed
handle_query_failed(packet) == [packet EXCEPT !.header.response_code = "ServFail"]

\* handle_query_no_question without the response code
handle_query_no_question_silent(packet) == packet


\* handle_query, the response to a request without a question
handle_query_no_question(packet) == [packet EXCEPT !.header.response_code = "FormErr"]

\* handle_query, the response serialized and sent: Ok with the octets sent
handle_query_reply(packet, io) ==
    Try(Packet_write(new, packet), LAMBDA res_buffer :
    Try(get_range(res_buffer.b, 0, res_buffer.b.pos), LAMBDA data :
    IF ~io.send THEN Err(data.b, "UDPSendFailed") ELSE data))

\* handle_query has returned r, having decoded request and built packet
handle_query_returned(s, request, packet, r) ==
    [s EXCEPT !.pc = "done", !.request = request, !.packet = packet,
              !.sent = IF IsOk(r) THEN Append(@, r.val) ELSE @,
              !.ret = [tag |-> r.tag, error |-> IF IsOk(r) THEN "" ELSE r.val]]

----------------------------------------------------------------------------
(* Bounds and inputs *)

\* operations applied in a row to one buffer
MaxOps == 2

\* length of the pointer chains among the datagrams: chains of 1 .. MaxChain
\* compression pointers, each followed by the label "a"
MaxChain == 7

Zeros == new.bytes

\* bs with the octets of frag at off, off + 1, ...
Place(bs, off, frag) ==
    Rows([i \in 1 .. BUF_SIZE |->
            IF i > off /\ i <= off + Len(frag) THEN frag[i - off] ELSE octet(bs, i - 1)])

\* k pointers at 0, 2, ..., each to the next, then the name "a"
Chain(k) ==
    Rows([i \in 1 .. BUF_SIZE |->
            IF i <= 2 * k THEN (IF i % 2 = 1 THEN 192 ELSE i)
            ELSE IF i = 2 * k + 1 THEN 1
            ELSE IF i = 2 * k + 2 THEN 97
            ELSE 0])

\* "www" "google" 0, then at 12 a pointer to 4
WwwGoogle == <<3, 119, 119, 119, 6, 103, 111, 111, 103, 108, 101, 0, 192, 4>>

\* a header (1 question, 1 answer), the question "a.B" A IN, and the answer: a
\* pointer to the question's name, A IN, ttl 300, rdlength len, 4 octets
Response(len) ==
    <<170, 187, 129, 128, 0, 1, 0, 1, 0, 0, 0, 0,
      1, 97, 1, 66, 0, 0, 1, 0, 1,
      192, 12, 0, 1, 0, 1, 0, 0, 1, 44, 0, len, 93, 184, 216, 34>>

\* one record of the given type and rdlength at 0 with owner "a"; its RDATA
\* holds a preference-like word and the name "m" (or octets to skip)
RecordOf(type, len) ==
    <<1, 97, 0, 0, type, 0, 1, 0, 0, 14, 16, len \div 256, len % 256, 1, 109, 0, 1, 109, 0>>

Datagrams ==
    { Zeros,
      Rows([i \in 1 .. BUF_SIZE |-> 255]),
      Rows([i \in 1 .. BUF_SIZE |-> IF i % 32 = 1 THEN 31 ELSE 97]),
      Place(Zeros, 0, <<192, 0>>),
      Place(Zeros, 0, WwwGoogle),
      Place(Zeros, 0, <<0, 0, 8, 0>>),
      Place(Zeros, 0, <<0, 0, 0, 16>>),
      Place(Zeros, 0, Response(4)),
      Place(Zeros, 0, Response(0)),
      Place(Place(Zeros, 0, <<193, 255>>), 511, <<192>>),
      Place(Place(Zeros, 0, <<193, 255>>), 511, <<1>>),
      Place(Place(Zeros, 0, <<63>>), 1, [i \in 1 .. 63 |-> 65]),
      Place(Zeros, 508, <<2, 97, 98, 0>>),
      Place(Zeros, 509, <<2, 97, 98>>),
      Place(Zeros, 0, <<170, 187, 1, 0, 0, 1, 0, 0, 0, 0, 0, 0, 192, 12>>),
      Place(Zeros, 0, <<170, 187, 129, 128, 0, 1, 0, 1, 0, 0, 0, 0,
                        1, 97, 1, 98, 0, 0, 1, 0, 1, 192, 21>>) }
    \cup { Chain(k) : k \in 1 .. MaxChain }
    \cup { Place(Zeros, 0, RecordOf(t, n)) :
              t \in {1, 2, 5, 15, 28, 99}, n \in {3, 65535} }

\* the big-endian 16-bit word at octets n and n + 1
word(bs, n) == octet(bs, n) * 256 + octet(bs, n + 1)

\* the entries the four count fields of a datagram's header announce
Announced(bs) == word(bs, 4) + word(bs, 6) + word(bs, 8) + word(bs, 10)

\* the most entries a datagram decoded as a whole packet announces
MaxEntries == 6

\* cursors a decode starts from
DecodeStarts == {0, 12, 21, 508, 509, 511, 512}

\* the arguments of an operation that takes none, and the result of none
NoArgs == [none |-> TRUE]
NotReturned == [tag |-> "None", val |-> [none |-> TRUE]]

\* what a call returned: Ok, Err or Panic, and under the name of its kind
\* (u8, name, header, ...; error for an Err) the value
Returned(kind, r) ==
    [tag |-> r.tag,
     val |-> [k \in {IF r.tag = "Ok" THEN kind ELSE IF r.tag = "Err" THEN "error" ELSE "panic"}
                |-> r.val]]

\* no read_qname call in progress
q_idle == [impl |-> "none", phase |-> "idle", l |-> read_qname_init(new)]

buf == [bytes |-> bytes, pos |-> pos]

\* no result of a recursive_lookup call at hand; a result is Ok with a packet,
\* or Err or Panic with the error
no_result == [tag |-> "None", packet |-> Packet_default, error |-> ""]

\* no query on its way to a name server
no_query == [octets |-> <<>>, server |-> [ns |-> <<0, 0, 0, 0>>, port |-> 0]]

\* no handle_query call in progress
srv_idle ==
    [pc |-> "idle", self |-> [local_port |-> 0], listen |-> 0, decoded |-> FALSE,
     request |-> Packet_default, question |-> <<>>, packet |-> Packet_default,
     stack |-> <<>>, result |-> no_result, lookups |-> 0,
     bind |-> [tag |-> "None", port |-> 0], upstream |-> <<>>,
     query |-> no_query, last |-> no_result,
     sent |-> <<>>, ret |-> [tag |-> "None", error |-> ""]]

----------------------------------------------------------------------------
(* read_qname, one loop iteration per step *)

InitQname ==
    /\ bytes \in Datagrams
    /\ pos \in DecodeStarts
    /\ op = "read_qname"
    /\ args = NoArgs
    /\ ret = NotReturned
    /\ pre = [bytes |-> bytes, pos |-> pos]
    /\ nops = 0
    /\ \E impl \in {"packet", "main"} :
          q = [impl |-> impl, phase |-> "loop", l |-> read_qname_init(buf)]
    /\ srv = srv_idle

\* the loop body has run once more
QnameIterated(s) ==
    /\ pos' = s.b.pos
    /\ q' = [q EXCEPT !.l = s.l]
    /\ UNCHANGED <<bytes, op, args, ret, pre, nops, srv>>

\* the call has returned r
QnameReturned(r) ==
    /\ pos' = r.b.pos
    /\ ret' = Returned("name", r)
    /\ q' = [q EXCEPT !.phase = "returned"]
    /\ nops' = nops + 1
    /\ UNCHANGED <<bytes, op, args, pre, srv>>

ReadQnameIter ==
    /\ q.impl = "packet" /\ q.phase = "loop" /\ q.l.status = "loop"
    /\ QnameIterated(read_qname_iter(buf, q.l))

ReadQnameEnd ==
    /\ q.impl = "packet" /\ q.phase = "loop" /\ q.l.status # "loop"
    /\ QnameReturned(read_qname_end(buf, q.l))

MainReadQnameIter ==
    /\ q.impl = "main" /\ q.phase = "loop" /\ q.l.status = "loop"
    /\ QnameIterated(main_read_qname_iter(buf, q.l))

MainReadQnameEnd ==
    /\ q.impl = "main" /\ q.phase = "loop" /\ q.l.status # "loop"
    /\ QnameReturned(read_qname_end(buf, q.l))

NextQname == ReadQnameIter \/ ReadQnameEnd \/ MainReadQnameIter \/ MainReadQnameEnd

SpecQname == InitQname /\ [][NextQname]_vars

\* the loop is a sequential program: it takes its next step as long as it has one
SpecQnameFair == SpecQname /\ WF_vars(NextQname)

----------------------------------------------------------------------------
(* One buffer operation per step *)

\* operation name with arguments a has run on buf and returned r, a value of
\* the given kind
Apply(name, a, kind, r) ==
    /\ nops < MaxOps
    /\ q.impl = "none"
    /\ srv.pc = "idle"
    /\ bytes' = r.b.bytes
    /\ pos' = r.b.pos
    /\ op' = name
    /\ args' = a
    /\ ret' = Returned(kind, r)
    /\ pre' = buf
    /\ nops' = nops + 1
    /\ UNCHANGED <<q, srv>>

\* indexes handed to get
GetIndexes == {0, 511, 512, 16383}

\* <<start, len>> handed to get_range
GetRanges == {<<0, 12>>, <<500, 11>>, <<500, 12>>, <<511, 1>>}

\* targets of seek, and distances of step
SeekTargets == {0, 511, 512}
StepSizes == {1, 65535}

\* a received datagram, the cursor where an earlier step or seek left it
InitDecode ==
    /\ bytes \in Datagrams
    /\ pos \in DecodeStarts
    /\ op = "from"
    /\ args = NoArgs
    /\ ret = NotReturned
    /\ pre = [bytes |-> bytes, pos |-> 0]
    /\ nops = 0
    /\ q = q_idle
    /\ srv = srv_idle

ReadU8 == Apply("read_u8", NoArgs, "u8", read_u8(buf))
ReadU16 == Apply("read_u16", NoArgs, "u16", read_u16(buf))
ReadU32 == Apply("read_u32", NoArgs, "u32", read_u32(buf))
Get == \E n \in GetIndexes : Apply("get", [n |-> n], "u8", get(buf, n))
MainGet == \E n \in GetIndexes : Apply("main_get", [n |-> n], "u8", main_get(buf, n))
GetRange ==
    \E r \in GetRanges :
        Apply("get_range", [start |-> r[1], len |-> r[2]], "octets", get_range(buf, r[1], r[2]))
Seek == \E n \in SeekTargets : Apply("seek", [n |-> n], "unit", seek(buf, n))
Step == \E n \in StepSizes : Apply("step", [n |-> n], "unit", Ok(step(buf, n), 0))
ReadQname == Apply("read_qname", NoArgs, "name", read_qname(buf))
MainReadQname == Apply("main_read_qname", NoArgs, "name", main_read_qname(buf))
HeaderTryFrom == Apply("Header::try_from", NoArgs, "header", Header_try_from(buf))
QuestionTryFrom == Apply("Question::try_from", NoArgs, "question", Question_try_from(buf))
RecordTryFrom == Apply("Record::try_from", NoArgs, "record", Record_try_from(buf))
\* Packet::try_from, on the datagrams whose header announces at most
\* MaxEntries questions and records
PacketTryFrom ==
    /\ Announced(bytes) <= MaxEntries
    /\ Apply("Packet::try_from", NoArgs, "packet", Packet_try_from(buf))

NextDecode ==
    \/ ReadU8 \/ ReadU16 \/ ReadU32
    \/ Get \/ MainGet \/ GetRange
    \/ Seek \/ Step
    \/ ReadQname \/ MainReadQname
    \/ HeaderTryFrom \/ QuestionTryFrom \/ RecordTryFrom \/ PacketTryFrom

SpecDecode == InitDecode /\ [][NextDecode]_vars

----------------------------------------------------------------------------
(* Values written *)

\* "a", "A.b", "ns.B", "m.b", "www.Example.com"
Name_a == <<97>>
Name_Ab == <<65, 46, 98>>
Name_nsB == <<110, 115, 46, 66>>
Name_mb == <<109, 46, 98>>
Name_www == <<119, 119, 119, 46, 69, 120, 97, 109, 112, 108, 101, 46, 99, 111, 109>>

\* names of one label of 62, 63 and 64 octets
Name_62 == [i \in 1 .. 62 |-> 97]
Name_63 == [i \in 1 .. 63 |-> 97]
Name_64 == [i \in 1 .. 64 |-> 97]

\* "a." and a second label of 63 octets
Name_a63 == <<97, 46>> \o Name_63

Names == {Name_a, Name_Ab, Name_www, Name_62, Name_63, Name_64, Name_a63, <<>>}

\* the octets of a name on the wire: a length octet per label, the labels,
\* the terminating zero
WireLen(n) == Len(n) + 2

\* a name of labels of 1 .. 63 octets each, at most 255 octets on the wire
ValidName(n) ==
    /\ \A i \in 1 .. Len(split(n)) : Len(split(n)[i]) \in 1 .. 63
    /\ WireLen(n) <= 255

Headers ==
    { [Header_default EXCEPT
          !.op_code = o, !.z = z, !.response_code = rc,
          !.is_response = f, !.is_authoritative = f, !.is_truncated = f,
          !.recursion_desired = f, !.recursion_available = f,
          !.question_count = IF f THEN 1 ELSE 0, !.answer_count = IF f THEN 258 ELSE 0,
          !.authority_count = IF f THEN 3 ELSE 0, !.additional_count = IF f THEN 65535 ELSE 0] :
        o \in {0, 1, 15}, z \in {0, 1, 7}, rc \in {"NoError", "Refused"}, f \in BOOLEAN }

Questions ==
    { Question_new(Name_a, RecordType("A")),
      Question_new(Name_Ab, RecordType("MX")),
      Question_new(Name_www, RecordType_Unknown(99)) }

\* a locally built preamble: class 1, ttl 300, len the length of the RDATA
Preamble(name, record_type, len) == RecordPreamble(name, record_type, 1, U32(0, 300), len)

Rec_A == Record_A(Preamble(Name_a, RecordType("A"), 4), <<93, 184, 216, 34>>)
Rec_AAAA == Record_AAAA(Preamble(Name_a, RecordType("AAAA"), 16), <<8193, 3512, 0, 0, 0, 0, 0, 1>>)
Rec_NS == Record_NS(Preamble(Name_a, RecordType("NS"), WireLen(Name_nsB)), Name_nsB)
Rec_CNAME == Record_CNAME(Preamble(Name_Ab, RecordType("CNAME"), WireLen(Name_a)), Name_a)
Rec_MX == Record_MX(Preamble(Name_a, RecordType("MX"), WireLen(Name_mb) + 2), 10, Name_mb)
Rec_Unknown == Record_Unknown(Preamble(Name_a, RecordType_Unknown(99), 0))
Rec_Long == Record_NS(Preamble(Name_a, RecordType("NS"), WireLen(Name_62)), Name_62)

Records == {Rec_A, Rec_AAAA, Rec_NS, Rec_CNAME, Rec_MX, Rec_Unknown, Rec_Long}

\* a packet whose four counts are the lengths of its sections
PacketOf(qs, an, ns, ar) ==
    [header |-> [Header_default EXCEPT !.question_count = Len(qs), !.answer_count = Len(an),
                                       !.authority_count = Len(ns), !.additional_count = Len(ar)],
     questions |-> qs, answers |-> an, authorities |-> ns, additionals |-> ar]

Packets ==
    { PacketOf(<<Question_new(Name_Ab, RecordType("A"))>>, <<>>, <<>>, <<>>),
      PacketOf(<<Question_new(Name_Ab, RecordType("A"))>>, <<Rec_A>>, <<>>, <<>>),
      PacketOf(<<Question_new(Name_a, RecordType("AAAA"))>>, <<Rec_AAAA, Rec_A>>, <<>>, <<>>),
      PacketOf(<<Question_new(Name_a, RecordType("A"))>>, <<>>, <<Rec_NS>>, <<Rec_A>>),
      PacketOf(<<Question_new(Name_a, RecordType("MX"))>>, <<Rec_MX, Rec_CNAME>>, <<>>, <<>>),
      PacketOf(<<Question_new(Name_a, RecordType_Unknown(99))>>, <<Rec_Unknown>>, <<>>, <<>>) }

\* cursors a write starts from
EncodeStarts == {0, 12, 440, 509, 510, 511, 512}

\* values handed to write_u8, write_u16 and set_u16, write_u32
U8Values == {0, 255}
U16Values == {7, 258, 65535}
U32Values == {U32(258, 772)}

\* positions handed to set_u16
SetPositions == {0, 12, 510, 511, 512}

----------------------------------------------------------------------------
(* Writing *)

\* a buffer to write to: fresh, or holding earlier octets, the cursor where
\* earlier writes or a step left it
InitEncode ==
    /\ bytes \in {Zeros, Rows([i \in 1 .. BUF_SIZE |-> IF i % 2 = 1 THEN 1 ELSE 97])}
    /\ pos \in EncodeStarts
    /\ op = "new"
    /\ args = NoArgs
    /\ ret = NotReturned
    /\ pre = [bytes |-> bytes, pos |-> 0]
    /\ nops = 0
    /\ q = q_idle
    /\ srv = srv_idle

WriteU8 == \E v \in U8Values : Apply("write_u8", [value |-> v], "unit", write_u8(buf, v))
WriteU16 == \E v \in U16Values : Apply("write_u16", [value |-> v], "unit", write_u16(buf, v))
WriteU32 == \E v \in U32Values : Apply("write_u32", [value |-> v], "unit", write_u32(buf, v))
WriteQname == \E n \in Names : Apply("write_qname", [qname |-> n], "unit", write_qname(buf, n))
SetU16 ==
    \E p \in SetPositions, v \in U16Values :
        Apply("set_u16", [pos |-> p, value |-> v], "unit", set_u16(buf, p, v))
HeaderWrite == \E h \in Headers : Apply("Header::write", [header |-> h], "unit", Header_write(buf, h))
QuestionWrite ==
    \E qn \in Questions : Apply("Question::write", [question |-> qn], "unit", Question_write(buf, qn))
RecordWrite == \E r \in Records : Apply("Record::write", [record |-> r], "unit", Record_write(buf, r))
PacketWrite == \E p \in Packets : Apply("Packet::write", [packet |-> p], "unit", Packet_write(buf, p))

NextEncode ==
    \/ WriteU8 \/ WriteU16 \/ WriteU32 \/ WriteQname \/ SetU16
    \/ HeaderWrite \/ QuestionWrite \/ RecordWrite \/ PacketWrite

SpecEncode == InitEncode /\ [][NextEncode]_vars

----------------------------------------------------------------------------
(* Conversions and searches that use no buffer, one call per step *)

\* 16-bit codes: the five known ones, their neighbours, the ends of the range
Codes == 0 .. 40 \cup {255, 256, 65534, 65535}

\* record types handed to u16::from
Types ==
    {RecordType(t) : t \in {"A", "NS", "CNAME", "MX", "AAAA"}}
    \cup {RecordType_Unknown(x) : x \in {0, 1, 3, 99, 65535}}

InitCalls ==
    /\ bytes = Zeros
    /\ pos = 0
    /\ op = "from"
    /\ args = NoArgs
    /\ ret = NotReturned
    /\ pre = new
    /\ nops = 0
    /\ q = q_idle
    /\ srv = srv_idle

RecordTypeFrom ==
    \E c \in Codes :
        Apply("RecordType::from", [code |-> c], "record_type", Ok(buf, RecordType_from(c)))
RecordTypeInto ==
    \E t \in Types :
        Apply("u16::from", [record_type |-> t], "u16", Ok(buf, RecordType_into(t)))

\* "b", "a.b", "c", "ns.b", "m.b"
Name_b == <<98>>
Name_ab == <<97, 46, 98>>
Name_c == <<99>>
Name_nsb == <<110, 115, 46, 98>>

\* authority records: NS records of owners that end "a.b" and of one that does
\* not, and a CNAME of the same owner and host as the first NS
Delegations ==
    { Record_NS(Preamble(Name_b, RecordType("NS"), WireLen(Name_nsb)), Name_nsb),
      Record_NS(Preamble(Name_ab, RecordType("NS"), WireLen(Name_mb)), Name_mb),
      Record_NS(Preamble(Name_c, RecordType("NS"), WireLen(Name_nsb)), Name_nsb),
      Record_CNAME(Preamble(Name_b, RecordType("CNAME"), WireLen(Name_nsb)), Name_nsb) }

\* additional records: two A records and an AAAA record of "ns.b", an A
\* record of "m.b"
Glue ==
    { Record_A(Preamble(Name_nsb, RecordType("A"), 4), <<192, 0, 2, 1>>),
      Record_A(Preamble(Name_nsb, RecordType("A"), 4), <<192, 0, 2, 2>>),
      Record_AAAA(Preamble(Name_nsb, RecordType("AAAA"), 16), <<8193, 3512, 0, 0, 0, 0, 0, 1>>),
      Record_A(Preamble(Name_mb, RecordType("A"), 4), <<192, 0, 2, 3>>) }

\* the sequences of at most two records of S
UpToTwo(S) == {<<>>} \cup {<<r>> : r \in S} \cup {<<r, s>> : r \in S, s \in S}

GetResolvedNs ==
    \E ns \in UpToTwo(Delegations), ar \in UpToTwo(Glue) :
        LET p == PacketOf(<<Question_new(Name_ab, RecordType("A"))>>, <<>>, ns, ar)
        IN  Apply("get_resolved_ns", [packet |-> p, qname |-> Name_ab], "addr",
                  Ok(buf, get_resolved_ns(p, Name_ab)))

NextCalls == RecordTypeFrom \/ RecordTypeInto \/ GetResolvedNs

SpecCalls == InitCalls /\ [][NextCalls]_vars

----------------------------------------------------------------------------
(* The server: handle_query and recursive_lookup, one step per datagram     *)
(* received, call made or call returned                                     *)

\* lookups counted by srv.lookups: beyond MaxLookups it stays there
MaxLookups == 2

\* recursive_lookup calls in progress at once
MaxDepth == 9

\* the local_port of a Server (0 asks the system for a free port), and the
\* port of the socket handed to handle_query
LocalPorts == {0, 2053}
ListenPorts == {2053}

\* a header with id 0xAABB, the two flag octets and the four counts
Hdr(flags1, flags2, qd, an, ns, ar) == <<170, 187, flags1, flags2, 0, qd, 0, an, 0, ns, 0, ar>>

\* at 12 the question "a.b" A IN; at 21 the authority "b" NS "ns.b", its
\* owner a pointer to 14 and its host at 33; at 38 the additional "ns.b" A
\* 198.41.0.4, its owner a pointer to 33
Q_ab == <<1, 97, 1, 98, 0, 0, 1, 0, 1>>
NS_b == <<192, 14, 0, 2, 0, 1, 0, 0, 1, 44, 0, 5, 2, 110, 115, 192, 14>>
A_ns == <<192, 33, 0, 1, 0, 1, 0, 0, 1, 44, 0, 4, 198, 41, 0, 4>>

\* the answer "a.b" A 93.184.216.34; the authority "a.b" NS "ns.b", which
\* follows it with its host at 49; the additional "ns.b" A 198.41.0.5, its
\* owner a pointer to 49
A_ab == <<192, 12, 0, 1, 0, 1, 0, 0, 1, 44, 0, 4, 93, 184, 216, 34>>
NS_ab == <<192, 12>> \o SubSeq(NS_b, 3, 17)
A_ns_49 == <<192, 49, 0, 1, 0, 1, 0, 0, 1, 44, 0, 4, 198, 41, 0, 5>>

\* the EDNS additional: the root name, type 41 (OPT), 1232 in the place of
\* the class, ttl 0, no data
OPT == <<0, 0, 41, 4, 208, 0, 0, 0, 0, 0, 0>>

\* a name of four labels of 62 octets, 253 octets on the wire
Long4 == [i \in 1 .. 252 |-> IF i % 63 = 1 THEN 62 ELSE 97] \o <<0>>

\* at 21 the answer "a.b" CNAME Long4, its owner a pointer to 12 and its host
\* at 33; after it a second answer "a.b" CNAME, its host a pointer to 33
CNAME_long == <<192, 12, 0, 5, 0, 1, 0, 0, 1, 44, 0, 253>> \o Long4
CNAME_ptr == <<192, 12, 0, 5, 0, 1, 0, 0, 1, 44, 0, 2, 192, 33>>

\* what a client sends: no question; "a.b" A; "a.b" A and "a.b" MX, the
\* second in the class 3 (CH); a question whose name is a pointer to itself;
\* a question whose name is a label of 63 octets
Requests ==
    { Place(Zeros, 0, Hdr(1, 0, 0, 0, 0, 0)),
      Place(Zeros, 0, Hdr(1, 0, 1, 0, 0, 0) \o Q_ab),
      Place(Zeros, 0, Hdr(1, 0, 2, 0, 0, 0) \o Q_ab \o <<192, 12, 0, 15, 0, 3>>),
      Place(Zeros, 0, Hdr(1, 0, 1, 0, 0, 0) \o <<192, 12>>),
      Place(Zeros, 0, Hdr(1, 0, 1, 0, 0, 0) \o <<63>> \o Name_63 \o <<0, 0, 1, 0, 1>>) }

\* what a name server answers: an A answer; NXDomain with the TC flag;
\* nothing; an NS authority with its glue; an NS authority without glue; two
\* CNAME answers of 512 octets and more once their names are written in full;
\* a record cut short; ServFail with an A answer, an NS authority and its
\* glue; an A answer with an additional of a type that RecordType does not know
Upstream ==
    { Place(Zeros, 0, Response(4)),
      Place(Zeros, 0, Hdr(131, 131, 1, 0, 0, 0) \o Q_ab),
      Place(Zeros, 0, Hdr(129, 128, 1, 0, 0, 0) \o Q_ab),
      Place(Zeros, 0, Hdr(129, 128, 1, 0, 1, 1) \o Q_ab \o NS_b \o A_ns),
      Place(Zeros, 0, Hdr(129, 128, 1, 0, 1, 0) \o Q_ab \o NS_b),
      Place(Zeros, 0, Hdr(129, 128, 1, 2, 0, 0) \o Q_ab \o CNAME_long \o CNAME_ptr),
      Place(Zeros, 0, Hdr(129, 128, 1, 1, 0, 0) \o Q_ab \o <<192, 21>>),
      Place(Zeros, 0, Hdr(129, 130, 1, 1, 1, 1) \o Q_ab \o A_ab \o NS_ab \o A_ns_49),
      Place(Zeros, 0, Hdr(129, 128, 1, 1, 0, 1) \o Q_ab \o A_ab \o OPT) }

\* the outcomes of the socket calls of one lookup or of one handle_query: one
\* of them fails, or all succeed and one of the datagrams is received
IO(datagrams) ==
    { [bind |-> b, send |-> s, recv |-> r, datagram |-> Zeros] :
        <<b, s, r>> \in {<<FALSE, TRUE, TRUE>>, <<TRUE, FALSE, TRUE>>, <<TRUE, TRUE, FALSE>>} }
    \cup { [bind |-> TRUE, send |-> TRUE, recv |-> TRUE, datagram |-> d] : d \in datagrams }

\* a.root-servers.net
root_ns == <<198, 41, 0, 4>>

\* the local variables of a recursive_lookup call; response is the one at
\* hand while a nested call runs
frame(qname, qtype) ==
    [qname |-> qname, qtype |-> qtype, ns |-> root_ns, response |-> Packet_default]

\* the result r of a call, as held in srv.result
result_of(r) ==
    IF IsOk(r) THEN [tag |-> "Ok", packet |-> r.val, error |-> ""]
    ELSE [tag |-> r.tag, packet |-> Packet_default, error |-> r.val]

\* the local variables of the innermost recursive_lookup call
top == srv.stack[Len(srv.stack)]

InitServer ==
    /\ bytes = Zeros
    /\ pos = 0
    /\ op = "handle_query"
    /\ args = NoArgs
    /\ ret = NotReturned
    /\ pre = new
    /\ nops = 0
    /\ q = q_idle
    /\ \E local_port \in LocalPorts, listen \in ListenPorts :
          srv = [srv_idle EXCEPT !.pc = "recv", !.self = [local_port |-> local_port],
                                 !.listen = listen]

\* handle_query, the request received and decoded
recv_packet(io) ==
    IF ~io.recv THEN Err(new, "UDPRecvFailed") ELSE Packet_try_from(from(io.datagram))

\* handle_query with the request decoded and the response initialized as
\* packet; replied is the outcome of the reply when there is no question
handle_query_request(s, request, packet, replied) ==
    IF request.questions = <<>>
    THEN handle_query_returned(s, request, handle_query_no_question(packet), replied)
    ELSE [s EXCEPT !.pc = "resolve", !.request = request,
                   !.question = <<request.questions[Len(request.questions)]>>,
                   !.packet = packet,
                   !.stack = <<frame(request.questions[Len(request.questions)].name,
                                     request.questions[Len(request.questions)].question_type)>>]

\* handle_query with the outcome of receiving and decoding the request
handle_query_received(s, received, replied) ==
    IF ~IsOk(received) THEN handle_query_returned(s, Packet_default, Packet_default, received)
    ELSE handle_query_request([s EXCEPT !.decoded = TRUE], received.val,
                              handle_query_init(received.val), replied)

\* the reply to a request without a question
reply_no_question(received, io) ==
    handle_query_reply(handle_query_no_question(handle_query_init(received.val)), io)

\* handle_query from its start to the call of recursive_lookup, or to its
\* end when it makes none
HandleQueryReceive ==
    /\ srv.pc = "recv"
    /\ \E io \in IO(Requests) :
       \E received \in {recv_packet(io)} :
       \E replied \in {IF IsOk(received) THEN reply_no_question(received, io) ELSE received} :
          srv' = handle_query_received(srv, received, replied)
    /\ UNCHANGED <<bytes, pos, op, args, ret, pre, nops, q>>

\* the call on top of the stack of s returns result to its caller
return(s, result) ==
    [s EXCEPT !.stack = SubSeq(@, 1, Len(@) - 1), !.result = result]

\* the ports held by open sockets when s binds one: that of the socket handed
\* to handle_query and those of the sockets of the lookups that have not
\* returned
bound_ports(s) == {s.listen} \cup {s.upstream[i] : i \in 1 .. Len(s.upstream)}

\* one more lookup made by s: it is counted, and its bind recorded when the
\* query could be written; its socket stays open while lookup waits for the
\* response, and is dropped when lookup returns on a failed send_to
looked_up(s, written, io) ==
    [s EXCEPT !.lookups = IF @ < MaxLookups THEN @ + 1 ELSE @,
              !.bind = IF ~IsOk(written) THEN [tag |-> "None", port |-> 0]
                       ELSE [tag |-> bind(s.self.local_port, bound_ports(s), io).tag,
                             port |-> s.self.local_port],
              !.upstream = IF /\ IsOk(written)
                              /\ IsOk(bind(s.self.local_port, bound_ports(s), io))
                              /\ io.send
                           THEN Append(@, s.self.local_port) ELSE @]

\* lookup returning with its socket left open
lookup_returned_bound(s, looked) ==
    [s EXCEPT !.pc = "resolve", !.query = no_query, !.last = result_of(looked)]

\* lookup returns looked: its socket, a local of lookup, is dropped
lookup_returned(s, looked) ==
    [s EXCEPT !.pc = "resolve", !.query = no_query, !.last = result_of(looked),
              !.upstream = SubSeq(@, 1, Len(@) - 1)]

\* recursive_lookup_body taking any response with answers for the result
recursive_lookup_body_any_code(s, looked, resolved, unresolved) ==
    IF ~IsOk(looked) THEN return(s, result_of(looked))
    ELSE IF looked.val.answers # <<>>
    THEN return(s, result_of(looked))
    ELSE IF looked.val.header.response_code = "NXDomain"
    THEN return(s, result_of(looked))
    ELSE IF resolved # <<>>
    THEN [s EXCEPT !.stack[Len(s.stack)].ns = resolved[1]]
    ELSE IF unresolved = <<>>
    THEN return(s, result_of(looked))
    ELSE [s EXCEPT !.stack = Append([@ EXCEPT ![Len(@)].response = looked.val],
                                    frame(unresolved[1], RecordType("A")))]


\* recursive_lookup_body resolving the NS host before it looks at the glue
recursive_lookup_body_host_first(s, looked, resolved, unresolved) ==
    IF ~IsOk(looked) THEN return(s, result_of(looked))
    ELSE IF looked.val.answers # <<>> /\ looked.val.header.response_code = "NoError"
    THEN return(s, result_of(looked))
    ELSE IF looked.val.header.response_code = "NXDomain"
    THEN return(s, result_of(looked))
    ELSE IF unresolved # <<>>
    THEN [s EXCEPT !.stack = Append([@ EXCEPT ![Len(@)].response = looked.val],
                                    frame(unresolved[1], RecordType("A")))]
    ELSE IF resolved # <<>>
    THEN [s EXCEPT !.stack[Len(s.stack)].ns = resolved[1]]
    ELSE return(s, result_of(looked))


\* recursive_lookup, the loop body after its lookup returned looked; resolved
\* and unresolved are get_resolved_ns and get_unresolved_ns of the response
recursive_lookup_body(s, looked, resolved, unresolved) ==
    IF ~IsOk(looked) THEN return(s, result_of(looked))
    ELSE IF looked.val.answers # <<>> /\ looked.val.header.response_code = "NoError"
    THEN return(s, result_of(looked))
    ELSE IF looked.val.header.response_code = "NXDomain"
    THEN return(s, result_of(looked))
    ELSE IF resolved # <<>>
    THEN [s EXCEPT !.stack[Len(s.stack)].ns = resolved[1]]
    ELSE IF unresolved = <<>>
    THEN return(s, result_of(looked))
    ELSE [s EXCEPT !.stack = Append([@ EXCEPT ![Len(@)].response = looked.val],
                                    frame(unresolved[1], RecordType("A")))]

\* one iteration of the loop of the recursive_lookup call with local
\* variables f: the lookup has returned looked, the body follows
recursive_lookup_iter(s, f, looked) ==
    recursive_lookup_body(s, looked, get_resolved_ns(looked.val, f.qname),
                          get_unresolved_ns(looked.val, f.qname))

\* recursive_lookup_resume returning the packet of the nested call when it
\* holds no address
recursive_lookup_resume_inner(s, f, new_ns) ==
    IF s.result.tag # "Ok" THEN return(s, s.result)
    ELSE IF new_ns # <<>>
    THEN [s EXCEPT !.stack[Len(s.stack)].ns = new_ns[1],
                   !.stack[Len(s.stack)].response = Packet_default,
                   !.result = no_result]
    ELSE return(s, s.result)


\* recursive_lookup, the nested call has returned s.result: the caller goes
\* on with the address it gave, or returns
recursive_lookup_resume(s, f, new_ns) ==
    IF s.result.tag # "Ok" THEN return(s, s.result)
    ELSE IF new_ns # <<>>
    THEN [s EXCEPT !.stack[Len(s.stack)].ns = new_ns[1],
                   !.stack[Len(s.stack)].response = Packet_default,
                   !.result = no_result]
    ELSE return(s, [tag |-> "Ok", packet |-> f.response, error |-> ""])

\* the name server the recursive_lookup call with local variables f asks
server(f) == [ns |-> f.ns, port |-> 53]

\* the octets lookup hands to send_to
sent_octets(send_buffer) == [i \in 1 .. send_buffer.pos |-> octet(send_buffer.bytes, i - 1)]

\* an iteration of the loop of recursive_lookup begins: lookup sends its
\* query and waits for the response, or fails and recursive_lookup with it
LookupSend ==
    /\ srv.pc = "resolve" /\ srv.stack # <<>> /\ srv.result.tag = "None"
    /\ \E io \in IO({Zeros}) :
       \E written \in {Packet_write(new, send_packet(top.qname, top.qtype))} :
       \E sent \in {lookup_send(srv.self, top.qname, top.qtype, bound_ports(srv), io)} :
          srv' = IF IsOk(sent)
                 THEN [looked_up(srv, written, io) EXCEPT
                          !.pc = "lookup", !.last = no_result,
                          !.query = [octets |-> sent_octets(sent.b), server |-> server(top)]]
                 ELSE return([looked_up(srv, written, io) EXCEPT !.last = no_result],
                             result_of(sent))
    /\ UNCHANGED <<bytes, pos, op, args, ret, pre, nops, q>>

\* the response of the name server, or none, has come: lookup returns, and
\* the iteration goes on to the next one, to the nested call or to the return
LookupReceive ==
    /\ srv.pc = "lookup"
    /\ \E io \in IO(Upstream) :
       \E looked \in {lookup_recv(io)} :
       \E after \in {recursive_lookup_iter(lookup_returned(srv, looked), top, looked)} :
          /\ Len(after.stack) <= MaxDepth
          /\ srv' = after
    /\ UNCHANGED <<bytes, pos, op, args, ret, pre, nops, q>>

\* the nested recursive_lookup call has returned to its caller
RecursiveLookupResume ==
    /\ srv.pc = "resolve" /\ srv.stack # <<>> /\ srv.result.tag # "None"
    /\ srv' = recursive_lookup_resume([srv EXCEPT !.last = no_result], top,
                                       get_random_a(srv.result.packet))
    /\ UNCHANGED <<bytes, pos, op, args, ret, pre, nops, q>>

\* handle_query, the response to the result of recursive_lookup
handle_query_resolved(s) ==
    IF s.result.tag = "Ok" THEN handle_query_found(s.packet, s.question[1], s.result.packet)
    ELSE handle_query_failed(s.packet)

\* handle_query from the return of recursive_lookup to its end
HandleQueryRespond ==
    /\ srv.pc = "resolve" /\ srv.stack = <<>> /\ srv.result.tag # "None"
    /\ \E io \in IO({Zeros}) :
       \E packet \in {handle_query_resolved(srv)} :
       \E replied \in {IF srv.result.tag = "Panic" THEN Panic(new)
                       ELSE handle_query_reply(packet, io)} :
          srv' = handle_query_returned(srv, srv.request,
                                       IF srv.result.tag = "Panic" THEN srv.packet ELSE packet,
                                       replied)
    /\ UNCHANGED <<bytes, pos, op, args, ret, pre, nops, q>>

\* a step of recursive_lookup
NextResolve == LookupSend \/ LookupReceive \/ RecursiveLookupResume

NextServer == HandleQueryReceive \/ NextResolve \/ HandleQueryRespond

SpecServer == InitServer /\ [][NextServer]_vars

\* recursive_lookup is a sequential program and each of its socket calls
\* returns: it takes its next step as long as it has one
SpecServerFair == SpecServer /\ WF_vars(NextResolve)

----------------------------------------------------------------------------
(* The whole model *)

Init == InitDecode \/ InitEncode \/ InitQname \/ InitServer \/ InitCalls

Next == NextDecode \/ NextEncode \/ NextQname \/ NextServer \/ NextCalls

Spec == Init /\ [][Next]_vars

----------------------------------------------------------------------------
(* Claims *)

\* the read_qname call in progress (either copy) has stopped on MaxJumpsAttained
QnameMaxJumps == q.impl # "none" /\ q.l.status = "err" /\ q.l.err = "MaxJumpsAttained"

\* C2: read_qname fails with MaxJumpsAttained once jumps >= MAX_JUMPS: a
\* decoding never follows more than 5 compression pointers, and when the
\* error is raised exactly 5 pointers have been followed.
C2_MaxJumpsAfterFive ==
    /\ q.impl # "none" => q.l.jumps <= MAX_JUMPS
    /\ QnameMaxJumps => q.l.jumps = MAX_JUMPS

\* C3, the loop's variant: an iteration of read_qname (packet.rs) ends the
\* loop, or follows one more pointer (at most MAX_JUMPS in all), or moves the
\* local position strictly forward from an index inside the buffer.
C3_Variant ==
    (q.impl = "packet" /\ q.phase = "loop" /\ q.l.status = "loop")
    => \/ q'.l.status # "loop"
       \/ q'.l.jumps = q.l.jumps + 1 /\ q'.l.jumps <= MAX_JUMPS
       \/ q'.l.jumps = q.l.jumps /\ q'.l.local_pos > q.l.local_pos /\ q.l.local_pos < 512

\* C3: read_qname (packet.rs) terminates for every buffer content and every
\* starting cursor: each iteration decreases the variant, every call in
\* progress eventually returns, and it returns a name, MaxJumpsAttained or
\* PacketBufferOver512.
C3_ReadQnameTerminates ==
    /\ [][C3_Variant]_vars
    /\ (q.impl = "packet" /\ q.phase = "loop") ~> (q.phase = "returned")
    /\ []((q.impl = "packet" /\ q.phase = "returned")
            => \/ ret.tag = "Ok"
               \/ ret.tag = "Err" /\ ret.val.error \in {"MaxJumpsAttained", "PacketBufferOver512"})

\* C3's case: a call that followed a pointer, read a label after it, and
\* returned the name
C3_Witness ==
    /\ q.impl = "packet" /\ q.phase = "returned" /\ ret.tag = "Ok"
    /\ q.l.jumps > 0 /\ Len(q.l.output) > 3

\* C1: decoding never touches an octet at an index >= 512 (in Rust such an
\* access is a panic): whatever the buffer holds and wherever the cursor is,
\* every decode operation returns a value or an error.
C1_NoAccessPast511 ==
    op \in {"read_u8", "read_u16", "read_u32", "get", "main_get", "get_range",
            "read_qname", "main_read_qname", "Header::try_from", "Question::try_from",
            "Record::try_from", "Packet::try_from"}
    => ret.tag \in {"Ok", "Err"}

\* C4: a name of labels of 1 .. 63 octets, written by write_qname where its
\* encoding fits in the buffer, is written without error, and read_qname from
\* the cursor it was written at returns the name in lower case and leaves the
\* cursor just past the terminating zero.
C4_QnameRoundTrip ==
    (op = "write_qname" /\ ValidName(args.qname) /\ pre.pos + WireLen(args.qname) <= BUF_SIZE)
    => /\ ret.tag = "Ok"
       /\ LET r == Try(seek(buf, pre.pos), LAMBDA s : read_qname(s.b))
          IN  /\ IsOk(r)
              /\ r.val = to_lowercase(args.qname)
              /\ r.b.pos = pre.pos + WireLen(args.qname)

\* C5: the header that Header::try_from decodes, written again by
\* Header::write, gives the 12 octets it was decoded from.
C5_HeaderDecodeEncode ==
    (op = "Header::try_from" /\ ret.tag = "Ok")
    => LET w == Header_write(new, ret.val.header)
       IN  /\ IsOk(w)
           /\ \A n \in 0 .. 11 : octet(w.b.bytes, n) = octet(pre.bytes, n)

\* C6: a header with opcode 0 .. 15, z 0 .. 7 and a defined response code,
\* written by Header::write at the start of a buffer, is decoded by
\* Header::try_from to a header equal to it in every field.
C6_HeaderEncodeDecode ==
    (op = "Header::write" /\ pre.pos = 0 /\ ret.tag = "Ok")
    => LET d == Header_try_from(from(bytes))
       IN  IsOk(d) /\ d.val = args.header

\* a question and a record with their names in lower case
LowerQuestion(x) == [x EXCEPT !.name = to_lowercase(x.name)]
LowerRecord(r) ==
    [r EXCEPT !.preamble.name = to_lowercase(r.preamble.name),
              !.host = to_lowercase(r.host), !.exchange = to_lowercase(r.exchange)]
LowerPacket(p) ==
    [p EXCEPT !.questions = [i \in 1 .. Len(p.questions) |-> LowerQuestion(p.questions[i])],
              !.answers = [i \in 1 .. Len(p.answers) |-> LowerRecord(p.answers[i])],
              !.authorities = [i \in 1 .. Len(p.authorities) |-> LowerRecord(p.authorities[i])],
              !.additionals = [i \in 1 .. Len(p.additionals) |-> LowerRecord(p.additionals[i])]]

\* C7: a locally built packet (counts equal to the section lengths) written
\* by Packet::write to a fresh buffer is decoded by Packet::try_from to the
\* same packet with its names in lower case.
C7_PacketRoundTrip ==
    (op = "Packet::write" /\ pre = new /\ ret.tag = "Ok")
    => LET d == Packet_try_from(from(bytes))
       IN  IsOk(d) /\ d.val = LowerPacket(args.packet)

\* C8: after Record::try_from decodes a record, the cursor is the end of the
\* record's preamble plus the rdlength the preamble announces.
C8_RecordCursor ==
    (op = "Record::try_from" /\ ret.tag = "Ok")
    => pos = Record_read_preamble(pre).b.pos + ret.val.record.preamble.len

\* the index of the rdlength field of a record written at cursor p
RdLengthAt(p, r) == p + WireLen(r.preamble.name) + 8

\* C9: the rdlength field of a record written by Record::write (A, AAAA, NS,
\* CNAME, MX) is the number of RDATA octets written after it: for MX the wire
\* length of the exchange plus 2, for NS and CNAME the wire length of the host.
C9_RdLength ==
    (op = "Record::write" /\ ret.tag = "Ok" /\ args.record.variant # "Unknown")
    => LET r == args.record
           field == RdLengthAt(pre.pos, r)
           rdlength == word(bytes, field)
       IN  /\ rdlength = pos - (field + 2)
           /\ r.variant = "MX" => rdlength = WireLen(r.exchange) + 2
           /\ r.variant \in {"NS", "CNAME"} => rdlength = WireLen(r.host)

\* C10: set_u16(pos, value) with pos + 1 < 512 writes the high octet of value
\* at pos and the low octet at pos + 1, changes no other octet and does not
\* move the cursor.
C10_SetU16 ==
    (op = "set_u16" /\ args.pos + 1 < BUF_SIZE)
    => /\ ret.tag = "Ok"
       /\ octet(bytes, args.pos) = args.value \div 256
       /\ octet(bytes, args.pos + 1) = args.value % 256
       /\ \A n \in 0 .. BUF_SIZE - 1 :
             n \notin {args.pos, args.pos + 1} => octet(bytes, n) = octet(pre.bytes, n)
       /\ pos = pre.pos

\* C11: a recursive_lookup call whose every lookup returns does itself return:
\* once handle_query has called it, handle_query gets its result, whatever the
\* name servers answer (an NS authority with its own glue included).
C11_RecursiveLookupReturns == (srv.pc = "resolve") ~> (srv.stack = <<>>)

\* C12: the number of recursive_lookup calls active at the same time never
\* exceeds the cap of 8 sub-resolutions, even when every answer is an NS
\* authority without glue whose host needs a resolution of its own.
C12_DepthCapped == Len(srv.stack) <= 8

\* the id and the flags QR, RD and RA in the header octets of a datagram d
WireId(d) == d[1] * 256 + d[2]
WireQR(d) == d[3] >= 128
WireRD(d) == d[3] % 2 = 1
WireRA(d) == d[4] >= 128

\* C13: the response packet of handle_query, on every path (success, ServFail
\* and FormErr), has the id of the request and is_response, recursion_desired
\* and recursion_available set, and so has the datagram sent from it.
C13_ResponseHeader ==
    srv.decoded =>
        /\ srv.packet.header.id = srv.request.header.id
        /\ srv.packet.header.is_response
        /\ srv.packet.header.recursion_desired
        /\ srv.packet.header.recursion_available
        /\ \A i \in 1 .. Len(srv.sent) :
              /\ WireId(srv.sent[i]) = srv.request.header.id
              /\ WireQR(srv.sent[i]) /\ WireRD(srv.sent[i]) /\ WireRA(srv.sent[i])

\* a request was resolved and the response with its answers sent
C13_Witness ==
    /\ srv.pc = "done" /\ srv.decoded /\ srv.ret.tag = "Ok"
    /\ srv.packet.answers # <<>> /\ Len(srv.sent) = 1
    /\ srv.request.header.id # Packet_default.header.id

\* the response code and the four counts in the header octets of a datagram d
WireRcode(d) == d[4] % 16
WireCounts(d) == <<d[5] * 256 + d[6], d[7] * 256 + d[8], d[9] * 256 + d[10], d[11] * 256 + d[12]>>

\* C14: a request without a question makes handle_query look nothing up and
\* reply FormErr with four empty sections and all counts 0; of a request with
\* questions exactly one is taken and resolved.
C14_FormErrOrOneQuestion ==
    srv.decoded =>
        IF srv.request.questions = <<>>
        THEN /\ srv.pc = "done" /\ srv.lookups = 0 /\ srv.stack = <<>>
             /\ srv.packet.header.response_code = "FormErr"
             /\ srv.packet.questions = <<>> /\ srv.packet.answers = <<>>
             /\ srv.packet.authorities = <<>> /\ srv.packet.additionals = <<>>
             /\ srv.packet.header.question_count = 0 /\ srv.packet.header.answer_count = 0
             /\ srv.packet.header.authority_count = 0
             /\ srv.packet.header.additional_count = 0
             /\ srv.ret.tag = "Ok" \/ srv.ret.error = "UDPSendFailed"
             /\ srv.ret.tag = "Ok" =>
                   /\ Len(srv.sent) = 1 /\ Len(srv.sent[1]) = 12
                   /\ WireRcode(srv.sent[1]) = ResultCode_as_u8("FormErr")
                   /\ WireCounts(srv.sent[1]) = <<0, 0, 0, 0>>
        ELSE /\ Len(srv.question) = 1
             /\ \E i \in 1 .. Len(srv.request.questions) : srv.question[1] = srv.request.questions[i]
             /\ srv.pc # "done" /\ srv.stack # <<>> =>
                   /\ srv.stack[1].qname = srv.question[1].name
                   /\ srv.stack[1].qtype = srv.question[1].question_type
             /\ srv.pc = "done" => srv.lookups >= 1 /\ srv.packet.header.response_code # "FormErr"

\* a request without a question was answered
C14_Witness ==
    /\ srv.pc = "done" /\ srv.decoded /\ srv.request.questions = <<>>
    /\ srv.request.header.id # 0 /\ Len(srv.sent) = 1

\* C15: when recursive_lookup returns an error (a bind, send or receive
\* failure or a codec error, in any iteration and at any depth), handle_query
\* still replies: with ServFail and without answer, authority or additional
\* record.
C15_ServFailOnError ==
    srv.pc = "done" /\ srv.decoded /\ srv.result.tag = "Err" =>
        /\ srv.packet.header.response_code = "ServFail"
        /\ srv.packet.answers = <<>> /\ srv.packet.authorities = <<>>
        /\ srv.packet.additionals = <<>>
        /\ srv.packet.header.answer_count = 0 /\ srv.packet.header.authority_count = 0
        /\ srv.packet.header.additional_count = 0
        /\ srv.ret.tag = "Ok" \/ srv.ret.error = "UDPSendFailed"
        /\ srv.ret.tag = "Ok" =>
              /\ Len(srv.sent) = 1
              /\ WireRcode(srv.sent[1]) = ResultCode_as_u8("ServFail")
              /\ WireCounts(srv.sent[1])[2] = 0 /\ WireCounts(srv.sent[1])[3] = 0
              /\ WireCounts(srv.sent[1])[4] = 0

\* a later lookup of the resolution got a response that does not decode, and
\* the client its ServFail
C15_Witness ==
    /\ srv.pc = "done" /\ srv.decoded /\ srv.result.tag = "Err"
    /\ srv.result.error = "MaxJumpsAttained" /\ srv.lookups = MaxLookups
    /\ Len(srv.sent) = 1

\* C16: after a successful resolution the response of handle_query holds the
\* question of the request, the response code of the result and the answers,
\* authorities and additionals of the result in their order, and each of the
\* four counts of its header, in the packet and in the datagram sent, is the
\* length of its section.
C16_ResponseCopiesResult ==
    srv.pc = "done" /\ srv.decoded /\ srv.result.tag = "Ok" =>
        /\ srv.packet.questions = srv.question
        /\ srv.packet.header.response_code = srv.result.packet.header.response_code
        /\ srv.packet.answers = srv.result.packet.answers
        /\ srv.packet.authorities = srv.result.packet.authorities
        /\ srv.packet.additionals = srv.result.packet.additionals
        /\ srv.packet.header.question_count = Len(srv.packet.questions)
        /\ srv.packet.header.answer_count = Len(srv.packet.answers)
        /\ srv.packet.header.authority_count = Len(srv.packet.authorities)
        /\ srv.packet.header.additional_count = Len(srv.packet.additionals)
        /\ srv.ret.tag = "Ok" =>
              /\ Len(srv.sent) = 1
              /\ WireRcode(srv.sent[1]) = ResultCode_as_u8(srv.result.packet.header.response_code)
              /\ WireCounts(srv.sent[1]) =
                    <<1, Len(srv.result.packet.answers), Len(srv.result.packet.authorities),
                      Len(srv.result.packet.additionals)>>

\* a resolution ended with an answer and the response was sent
C16_Witness ==
    /\ srv.pc = "done" /\ srv.decoded /\ srv.result.tag = "Ok" /\ srv.ret.tag = "Ok"
    /\ srv.result.packet.answers # <<>> /\ srv.question # <<>> /\ Len(srv.sent) = 1

\* C17: handle_query, once it has decoded the request, the lookups have
\* returned and its own send succeeds, has sent exactly one response
\* datagram, whatever the size and the content of the result.
C17_OneResponse ==
    srv.pc = "done" /\ srv.decoded /\ srv.result.tag # "Panic"
                    /\ srv.ret.error # "UDPSendFailed" =>
        srv.ret.tag = "Ok" /\ Len(srv.sent) = 1

\* C18: the socket from which a lookup sends its query is bound on an
\* ephemeral port (port 0 asked of the system), never on the configured port
\* of the server, on which the listening socket is held.
C18_EphemeralBind == srv.bind.tag # "None" => srv.bind.port = 0 /\ srv.bind.port # srv.listen

\* the number of octets of a u8, a u16 and a u32
Width(name) ==
    CASE name \in {"read_u8", "write_u8"} -> 1
      [] name \in {"read_u16", "write_u16"} -> 2
      [] name \in {"read_u32", "write_u32"} -> 4

\* the octets of a u8, a u16 and a u32 (as its two halves), the highest first
BigEndian(name, v) ==
    CASE Width(name) = 1 -> <<v>>
      [] Width(name) = 2 -> <<v \div 256, v % 256>>
      [] Width(name) = 4 -> <<v[1] \div 256, v[1] % 256, v[2] \div 256, v[2] % 256>>

\* the value read_u8, read_u16 or read_u32 has returned
ReadValue == IF op = "read_u8" THEN ret.val.u8 ELSE IF op = "read_u16" THEN ret.val.u16 ELSE ret.val.u32

\* C19: read_u8, read_u16 and read_u32 fail with PacketBufferOver512 when the
\* cursor is 512 or more before the read; when they succeed they return the
\* big-endian value of the 1, 2 or 4 octets at the cursor, advance the cursor
\* by exactly 1, 2 or 4 and leave the octets of the buffer as they were.
C19_ReadBigEndian ==
    op \in {"read_u8", "read_u16", "read_u32"} =>
        /\ pre.pos >= BUF_SIZE => ret.tag = "Err" /\ ret.val.error = "PacketBufferOver512"
        /\ ret.tag = "Ok" =>
              /\ pre.pos + Width(op) <= BUF_SIZE
              /\ BigEndian(op, ReadValue) = [i \in 1 .. Width(op) |-> octet(pre.bytes, pre.pos + i - 1)]
              /\ pos = pre.pos + Width(op)
              /\ bytes = pre.bytes

\* read_u16 has read two octets that differ and are not 0
C19_Witness ==
    /\ op = "read_u16" /\ ret.tag = "Ok"
    /\ ret.val.u16 \div 256 # 0 /\ ret.val.u16 % 256 # 0
    /\ ret.val.u16 \div 256 # ret.val.u16 % 256

\* C20: write_u8, write_u16 and write_u32 fail with PacketBufferOver512 when
\* the cursor is 512 or more before the write; when they succeed they have
\* stored the value big-endian in the 1, 2 or 4 octets from the cursor on,
\* advanced the cursor by exactly 1, 2 or 4 and changed no other octet.
C20_WriteBigEndian ==
    op \in {"write_u8", "write_u16", "write_u32"} =>
        /\ pre.pos >= BUF_SIZE => ret.tag = "Err" /\ ret.val.error = "PacketBufferOver512"
        /\ ret.tag = "Ok" =>
              /\ pre.pos + Width(op) <= BUF_SIZE
              /\ BigEndian(op, args.value) = [i \in 1 .. Width(op) |-> octet(bytes, pre.pos + i - 1)]
              /\ pos = pre.pos + Width(op)
              /\ \A n \in 0 .. BUF_SIZE - 1 :
                    (n < pre.pos \/ n >= pre.pos + Width(op)) => octet(bytes, n) = octet(pre.bytes, n)

\* write_u16 has written a value whose two octets differ over other octets
C20_Witness ==
    /\ op = "write_u16" /\ ret.tag = "Ok" /\ args.value = 258
    /\ octet(pre.bytes, pre.pos) # 1 /\ octet(pre.bytes, pre.pos + 1) # 2

\* C21: whatever operations have run on a PacketBuffer (reads, writes, seek,
\* step, read_qname, the decoding of records, Unknown ones included), its
\* cursor is within 0 .. 512.
C21_CursorInBounds == 0 <= pos /\ pos <= BUF_SIZE

\* the TC flag in the header octets of a datagram d
WireTC(d) == (d[3] \div 2) % 2 = 1

\* C22: the TC flag is never set on output: neither in a response that
\* handle_query has sent nor in a query that lookup has sent.
C22_NeverTruncated ==
    /\ \A i \in 1 .. Len(srv.sent) : ~WireTC(srv.sent[i])
    /\ srv.query.octets # <<>> => ~WireTC(srv.query.octets)
    /\ srv.decoded => ~srv.packet.header.is_truncated

\* the response to a request whose resolution ended with a truncated result
C22_Witness ==
    /\ srv.pc = "done" /\ srv.result.tag = "Ok" /\ srv.result.packet.header.is_truncated
    /\ Len(srv.sent) = 1 /\ srv.lookups >= 1

\* a response that ends the resolution: answers with NoError, or NXDomain
Terminal(p) ==
    \/ p.answers # <<>> /\ p.header.response_code = "NoError"
    \/ p.header.response_code = "NXDomain"

\* all of a sequence but its last element
Front(s) == SubSeq(s, 1, Len(s) - 1)

\* the step in which a lookup returns a response that decodes
Responded == srv.pc = "lookup" /\ srv'.pc = "resolve" /\ srv'.last.tag = "Ok"

\* C23: a response with answers and NoError, or with NXDomain whatever it
\* holds, is returned by recursive_lookup at once, no further query sent; a
\* response with answers and another response code is not: the call goes on
\* with the name server it names.
C23_TerminalResponses ==
    [][Responded =>
          /\ Terminal(srv'.last.packet) =>
                /\ srv'.stack = Front(srv.stack)
                /\ srv'.result = [tag |-> "Ok", packet |-> srv'.last.packet, error |-> ""]
                /\ srv'.lookups = srv.lookups /\ srv'.query = no_query
          /\ ( /\ ~Terminal(srv'.last.packet)
               /\ srv'.last.packet.answers # <<>>
               /\ get_unresolved_ns(srv'.last.packet, top.qname) # <<>> ) =>
                /\ Len(srv'.stack) >= Len(srv.stack)
                /\ srv'.result = no_result]_vars

\* an NXDomain response has been returned by a nested call
C23_Witness ==
    /\ srv.pc = "resolve" /\ srv.last.tag = "Ok"
    /\ srv.last.packet.header.response_code = "NXDomain"
    /\ srv.result = srv.last /\ srv.stack # <<>>

\* a response with an answer and ServFail has not been returned
C23_WitnessNotTerminal ==
    /\ srv.pc = "resolve" /\ srv.last.tag = "Ok" /\ srv.last.packet.answers # <<>>
    /\ srv.last.packet.header.response_code = "ServFail" /\ srv.result = no_result

\* the question of the query in the octets d, as Packet::try_from reads it
WireQuestions(d) == Packet_try_from(from(Place(Zeros, 0, d))).val.questions

\* the step in which lookup sends its query
Queried == srv.pc = "resolve" /\ srv'.pc = "lookup"

\* C24: when a response that is not terminal has a matching NS with an A glue
\* record, recursive_lookup starts no sub-resolution for it: the call keeps
\* its (qname, qtype), takes the glue address for ns, and its next query is
\* that question sent to (ns, 53).
C24_GlueFollowed ==
    [][/\ ( /\ Responded /\ ~Terminal(srv'.last.packet)
            /\ get_resolved_ns(srv'.last.packet, top.qname) # <<>> ) =>
             /\ Len(srv'.stack) = Len(srv.stack)
             /\ srv'.stack = [srv.stack EXCEPT ![Len(srv.stack)].ns =
                                 get_resolved_ns(srv'.last.packet, top.qname)[1]]
             /\ srv'.result = no_result
       /\ Queried =>
             /\ srv'.stack = srv.stack
             /\ srv'.query.server = [ns |-> top.ns, port |-> 53]
             /\ Len(WireQuestions(srv'.query.octets)) = 1
             /\ WireQuestions(srv'.query.octets)[1].name = top.qname
             /\ WireQuestions(srv'.query.octets)[1].question_type = top.qtype]_vars

\* the query that follows a response with glue, sent to the address of the glue
C24_Witness ==
    /\ srv.pc = "lookup" /\ srv.lookups = MaxLookups /\ Len(srv.stack) = 1
    /\ srv.query.server = [ns |-> <<198, 41, 0, 5>>, port |-> 53]
    /\ srv.stack[1].ns = <<198, 41, 0, 5>> /\ srv.stack[1].qname = <<97, 46, 98>>

\* the indexes of the NS authorities of p whose owner ends qname, and the
\* indexes of its A answers
MatchingNS(p, qname) ==
    {i \in 1 .. Len(p.authorities) :
        /\ p.authorities[i].variant = "NS"
        /\ ends_with(qname, p.authorities[i].preamble.name)}
AnswersA(p) == {i \in 1 .. Len(p.answers) : p.answers[i].variant = "A"}

\* the least of a non-empty set of numbers
Least(S) == CHOOSE i \in S : \A j \in S : i <= j

\* the step in which a nested recursive_lookup call has returned a packet to
\* its caller
Resumed ==
    srv.pc = "resolve" /\ srv.stack # <<>> /\ srv.result.tag = "Ok" /\ srv' # srv

\* C25: a response that is not terminal and has no glue is returned when it
\* has no matching NS; otherwise its first matching NS host is resolved as
\* (host, A) by a nested call that starts at 198.41.0.4.  When the packet of
\* the nested call holds an A answer the caller goes on with that address as
\* ns and the same (qname, qtype); when it holds none the caller returns its
\* own response.
C25_NoGlue ==
    [][/\ ( /\ Responded /\ ~Terminal(srv'.last.packet)
            /\ get_resolved_ns(srv'.last.packet, top.qname) = <<>> ) =>
             IF MatchingNS(srv'.last.packet, top.qname) = {}
             THEN /\ srv'.stack = Front(srv.stack)
                  /\ srv'.result = [tag |-> "Ok", packet |-> srv'.last.packet, error |-> ""]
             ELSE /\ Len(srv'.stack) = Len(srv.stack) + 1
                  /\ srv'.stack[Len(srv'.stack)].qname =
                        srv'.last.packet.authorities[
                            Least(MatchingNS(srv'.last.packet, top.qname))].host
                  /\ srv'.stack[Len(srv'.stack)].qtype = RecordType("A")
                  /\ srv'.stack[Len(srv'.stack)].ns = <<198, 41, 0, 4>>
                  /\ Front(srv'.stack) =
                        [srv.stack EXCEPT ![Len(srv.stack)].response = srv'.last.packet]
                  /\ srv'.result = no_result
       /\ Resumed =>
             IF AnswersA(srv.result.packet) # {}
             THEN /\ Len(srv'.stack) = Len(srv.stack)
                  /\ Front(srv'.stack) = Front(srv.stack)
                  /\ srv'.stack[Len(srv'.stack)].qname = top.qname
                  /\ srv'.stack[Len(srv'.stack)].qtype = top.qtype
                  /\ \E i \in AnswersA(srv.result.packet) :
                        srv'.stack[Len(srv'.stack)].ns = srv.result.packet.answers[i].addr
                  /\ srv'.result = no_result
             ELSE /\ srv'.stack = Front(srv.stack)
                  /\ srv'.result = [tag |-> "Ok", packet |-> top.response, error |-> ""]]_vars

\* the caller of a nested call that found no address has returned its own
\* response, the one that named the NS host
C25_Witness ==
    /\ srv.pc = "resolve" /\ srv.result.tag = "Ok" /\ srv.last = no_result
    /\ MatchingNS(srv.result.packet, <<97, 46, 98>>) # {}
    /\ srv.result.packet.additionals = <<>> /\ srv.result.packet.answers = <<>>
    /\ srv.lookups = MaxLookups

\* the packet in the octets d, as Packet::try_from reads it
WirePacket(d) == Packet_try_from(from(Place(Zeros, 0, d)))

\* C26: a query sent by lookup is a fresh packet with recursion_desired set
\* and is_response not, whose only question is the (qname, qtype) being
\* resolved with class 1: question_count is 1 and the other counts are 0.
C26_QueryPacket ==
    srv.query.octets # <<>> =>
        /\ srv.pc = "lookup"
        /\ WireCounts(srv.query.octets) = <<1, 0, 0, 0>>
        /\ WireRD(srv.query.octets) /\ ~WireQR(srv.query.octets)
        /\ IsOk(WirePacket(srv.query.octets))
        /\ WirePacket(srv.query.octets).val =
              [Packet_default EXCEPT
                  !.header.recursion_desired = TRUE,
                  !.header.question_count = 1,
                  !.questions = <<[name |-> top.qname, question_type |-> top.qtype,
                                   class |-> 1]>>]
        /\ Len(srv.query.octets) = 12 + Len(top.qname) + 2 + 4

\* the query of a nested call for the host of a name server
C26_Witness ==
    /\ srv.pc = "lookup" /\ Len(srv.stack) = 2 /\ srv.query.octets # <<>>
    /\ top.qname = <<110, 115, 46, 98>> /\ top.qtype = RecordType("A")

\* C27: get_range(start, len) fails with PacketBufferOver512 when start + len
\* >= 512; otherwise it returns the octets at start .. start + len - 1, as
\* many as len, and in both cases neither moves the cursor nor changes the
\* buffer.
C27_GetRange ==
    op = "get_range" =>
        /\ pos = pre.pos /\ bytes = pre.bytes
        /\ IF args.start + args.len >= 512
           THEN ret.tag = "Err" /\ ret.val.error = "PacketBufferOver512"
           ELSE /\ ret.tag = "Ok"
                /\ Len(ret.val.octets) = args.len
                /\ \A i \in 1 .. args.len :
                      ret.val.octets[i] = octet(pre.bytes, args.start + i - 1)

\* get_range has returned octets that are not all 0, the cursor not at 0
C27_Witness ==
    /\ op = "get_range" /\ ret.tag = "Ok" /\ pre.pos # 0
    /\ \E i \in 1 .. args.len : ret.val.octets[i] # 0

\* C28: Header::try_from with the cursor not at 0 fails with
\* PacketBufferInvalidPosition and consumes nothing, the cursor and the buffer
\* stay as they were; with the cursor at 0 it consumes exactly 12 octets.
C28_HeaderAtZero ==
    op = "Header::try_from" =>
        /\ bytes = pre.bytes
        /\ IF pre.pos # 0
           THEN /\ ret.tag = "Err" /\ ret.val.error = "PacketBufferInvalidPosition"
                /\ pos = pre.pos
           ELSE ret.tag = "Ok" /\ pos = 12

\* Header::try_from was refused at cursor 12
C28_Witness ==
    /\ op = "Header::try_from" /\ pre.pos = 12 /\ ret.tag = "Err"
    /\ octet(pre.bytes, 12) # 0

\* the two octets of a u16, the high one first
Octets16(v) == <<v \div 256, v % 256>>

\* C29: Header::write emits exactly 12 octets: id, flags1, flags2,
\* question_count, answer_count, authority_count, additional_count in this
\* order, the 16-bit fields big-endian, and advances the cursor by 12.
C29_HeaderWriteOrder ==
    op = "Header::write" =>
        /\ pre.pos + 12 <= BUF_SIZE => ret.tag = "Ok"
        /\ ret.tag = "Ok" =>
              /\ pos = pre.pos + 12
              /\ [i \in 1 .. 12 |-> octet(bytes, pre.pos + i - 1)] =
                    Octets16(args.header.id)
                    \o <<Header_flags1(args.header), Header_flags2(args.header)>>
                    \o Octets16(args.header.question_count)
                    \o Octets16(args.header.answer_count)
                    \o Octets16(args.header.authority_count)
                    \o Octets16(args.header.additional_count)
              /\ \A n \in 0 .. BUF_SIZE - 1 :
                    (n < pre.pos \/ n >= pre.pos + 12) => octet(bytes, n) = octet(pre.bytes, n)

\* a header with four different counts was written after other octets
C29_Witness ==
    /\ op = "Header::write" /\ ret.tag = "Ok" /\ pre.pos = 12
    /\ args.header.answer_count = 258 /\ args.header.additional_count = 65535

\* C30: the second flags octet written by Header::write is
\* (recursion_available << 7) | (z << 4) | response_code: its bit 7 is
\* recursion_available whatever z is, its low 4 bits are the response code.
C30_Flags2 ==
    op = "Header::write" /\ ret.tag = "Ok" =>
        /\ octet(bytes, pre.pos + 3) =
              BoolU8(args.header.recursion_available) * 128 + args.header.z * 16
              + ResultCode_as_u8(args.header.response_code)
        /\ (octet(bytes, pre.pos + 3) >= 128) = args.header.recursion_available
        /\ octet(bytes, pre.pos + 3) % 16 = ResultCode_as_u8(args.header.response_code)

\* C31: RecordType::from maps 1, 2, 5, 15 and 28 to A, NS, CNAME, MX and AAAA
\* and every other code c to Unknown(c), and u16::from takes the record type
\* back to the code; u16::from gives a 16-bit code for every record type.
C31_RecordTypeCodes ==
    /\ op = "RecordType::from" =>
          /\ ret.tag = "Ok"
          /\ ret.val.record_type =
                CASE args.code = 1 -> [tag |-> "A", x |-> 0]
                  [] args.code = 2 -> [tag |-> "NS", x |-> 0]
                  [] args.code = 5 -> [tag |-> "CNAME", x |-> 0]
                  [] args.code = 15 -> [tag |-> "MX", x |-> 0]
                  [] args.code = 28 -> [tag |-> "AAAA", x |-> 0]
                  [] OTHER -> [tag |-> "Unknown", x |-> args.code]
          /\ RecordType_into(ret.val.record_type) = args.code
    /\ op = "u16::from" =>
          /\ ret.tag = "Ok" /\ ret.val.u16 \in 0 .. 65535
          /\ args.record_type.tag = "Unknown" => ret.val.u16 = args.record_type.x

\* the code 65535 has become Unknown(65535)
C31_Witness ==
    /\ op = "RecordType::from" /\ args.code = 65535
    /\ ret.val.record_type.tag = "Unknown"

\* C32: Question::write emits qclass = 1 for every question, the question of
\* a request in another class that handle_query echoes included: the
\* questions of every response sent are in the class 1.
C32_QuestionClass ==
    \A i \in 1 .. Len(srv.sent) :
        IsOk(WirePacket(srv.sent[i])) =>
            \A k \in 1 .. Len(WirePacket(srv.sent[i]).val.questions) :
                WirePacket(srv.sent[i]).val.questions[k].class = 1

\* the header and the first question of the buffer the call was given
PreHeader == Header_try_from(pre)
PreQuestion == Question_try_from([bytes |-> pre.bytes, pos |-> 12])

\* its questions, and its first answer
PreQuestions == read_questions(PreHeader.b, PreHeader.val.question_count, <<>>)
PreAnswer == Record_try_from(PreQuestions.b)

LabelAt(n, j) ==
    LET dots == {k \in j .. Len(n) : n[k] = 46}
    IN  IF dots = {} THEN Len(n) - j + 1 ELSE Least(dots) - j

\* the indices at which the labels of n start
LabelStarts(n) == {1} \cup {k + 1 : k \in {i \in 1 .. Len(n) : n[i] = 46}}

\* the name on the wire: each dot gives way to the length of the label after
\* it, the first length goes in front and a zero at the end
NameOnWire(n) ==
    <<LabelAt(n, 1)>>
    \o [i \in 1 .. Len(n) |-> IF n[i] = 46 THEN LabelAt(n, i + 1) ELSE n[i]]
    \o <<0>>

RECURSIVE NameEnd(_, _)
NameEnd(bs, p) ==
    IF p >= BUF_SIZE THEN [at |-> p, is |-> "outside"]
    ELSE IF octet(bs, p) >= 192 THEN [at |-> p, is |-> "pointer"]
    ELSE IF octet(bs, p) = 0 THEN [at |-> p, is |-> "zero"]
    ELSE NameEnd(bs, p + 1 + octet(bs, p))

\* C35: after a successful read_qname started at cursor c, the cursor is just
\* past the zero that ends the name when the name has no pointer, and 2 past
\* the index of the first pointer otherwise, wherever the pointers lead; the
\* octets of the buffer are unchanged.
C35_CursorAfterName ==
    (op = "read_qname" /\ ret.tag = "Ok") =>
        LET e == NameEnd(pre.bytes, pre.pos)
        IN  /\ e.is \in {"zero", "pointer"}
            /\ e.is = "zero" => pos = e.at + 1
            /\ e.is = "pointer" => pos = e.at + 2
            /\ bytes = pre.bytes

\* a name of one label and a pointer was read: the cursor is past the pointer,
\* before the place where the pointer leads
C35_Witness ==
    /\ op = "read_qname" /\ ret.tag = "Ok"
    /\ NameEnd(pre.bytes, pre.pos).is = "pointer"
    /\ NameEnd(pre.bytes, pre.pos).at > pre.pos
    /\ pos = NameEnd(pre.bytes, pre.pos).at + 2

\* the name laid out at index p: its labels in lower case joined by dots,
\* those found where a pointer leads after those read before the pointer
RECURSIVE NameAt(_, _)
NameAt(bs, p) ==
    IF octet(bs, p) = 0 THEN <<>>
    ELSE IF octet(bs, p) >= 192
    THEN NameAt(bs, (octet(bs, p) % 64) * 256 + octet(bs, p + 1))
    ELSE LET label == to_lowercase(from_utf8_lossy(
                          [i \in 1 .. octet(bs, p) |-> octet(bs, p + i)]))
             rest == NameAt(bs, p + 1 + octet(bs, p))
         IN  IF rest = <<>> THEN label ELSE label \o <<46>> \o rest

\* C36: a successful read_qname returns the labels up to a pointer followed
\* by the labels of the name at the pointer's 14-bit offset, dot-joined, in
\* lower case, without a trailing dot; in the buffer 03 77 77 77 06 67 6F 6F
\* 67 6C 65 00 C0 04 it reads "google" at 12 and "www.google" at 0.
C36_NameThroughPointer ==
    (op = "read_qname" /\ ret.tag = "Ok") =>
        /\ ret.val.name = NameAt(pre.bytes, pre.pos)
        /\ (ret.val.name # <<>>) => ret.val.name[Len(ret.val.name)] # 46
        /\ (pre.bytes = Place(Zeros, 0, WwwGoogle) /\ pre.pos = 12)
              => ret.val.name = <<103, 111, 111, 103, 108, 101>>
        /\ (pre.bytes = Place(Zeros, 0, WwwGoogle) /\ pre.pos = 0)
              => ret.val.name = <<119, 119, 119, 46, 103, 111, 111, 103, 108, 101>>

\* the name at 12 of that buffer, a pointer to 4, was read
C36_Witness ==
    /\ op = "read_qname" /\ ret.tag = "Ok"
    /\ pre.bytes = Place(Zeros, 0, WwwGoogle) /\ pre.pos = 12
    /\ ret.val.name = <<103, 111, 111, 103, 108, 101>>

\* the pairs <<i, j>> of a matching NS authority i of p and an additional A
\* record j owned by the host of that NS
GluePairs(p, qname) ==
    {pair \in MatchingNS(p, qname) \X (1 .. Len(p.additionals)) :
        /\ p.additionals[pair[2]].variant = "A"
        /\ p.additionals[pair[2]].preamble.name = p.authorities[pair[1]].host}

\* C37: get_resolved_ns(qname) takes the NS authorities whose owner ends
\* qname in authority order and, for each, the additionals in order: it
\* returns the address of the first A additional owned by the host of such an
\* NS, and none when there is no such pair; an AAAA record or an A record of
\* another name is never taken.
C37_ResolvedNs ==
    op = "get_resolved_ns" =>
        LET p == args.packet
            pairs == GluePairs(p, args.qname)
            i == Least({pair[1] : pair \in pairs})
            j == Least({pair[2] : pair \in {x \in pairs : x[1] = i}})
        IN  /\ ret.tag = "Ok"
            /\ pairs = {} => ret.val.addr = <<>>
            /\ pairs # {} => ret.val.addr = <<p.additionals[j].addr>>
            /\ \A a \in 1 .. Len(ret.val.addr) : Len(ret.val.addr[a]) = 4

\* the second NS authority is the first with glue, which comes after an AAAA
\* record of the host of the first
C37_Witness ==
    /\ op = "get_resolved_ns"
    /\ Len(args.packet.authorities) = 2 /\ Len(args.packet.additionals) = 2
    /\ args.packet.authorities[1].host = Name_nsb
    /\ args.packet.authorities[1].preamble.name = Name_b
    /\ args.packet.authorities[1].variant = "NS"
    /\ args.packet.additionals[1].variant = "AAAA"
    /\ ret.val.addr = <<<<192, 0, 2, 3>>>>

\* C38: during the handling of a request at most one socket of a lookup is
\* bound: the socket is open while its lookup waits for the response, and is
\* released when the lookup returns, so that none is left when the next
\* iteration or a sub-resolution binds its own.
C38_OneUpstreamSocket ==
    /\ Len(srv.upstream) <= 1
    /\ srv.pc = "lookup" => srv.upstream = <<srv.self.local_port>> /\ srv.bind.tag = "Ok"
    /\ srv.pc # "lookup" => srv.upstream = <<>>

\* the first lookup of a sub-resolution has bound its socket after the lookup
\* of the caller returned
C38_Witness ==
    /\ srv.pc = "lookup" /\ Len(srv.stack) = 2 /\ srv.lookups = MaxLookups
    /\ Len(srv.upstream) = 1 /\ srv.bind.tag = "Ok"

\* C39: in every response datagram that handle_query sends, each of the four
\* header counts is the number of entries of its section in the octets: read
\* as the counts tell, the sections take the datagram up to its last octet.
C39_CountsAsEncoded ==
    \A i \in 1 .. Len(srv.sent) :
        /\ IsOk(WirePacket(srv.sent[i]))
        /\ WirePacket(srv.sent[i]).b.pos = Len(srv.sent[i])

\* C40: a read_u16, read_u32, write_u16 or write_u32 that fails with
\* PacketBufferOver512 leaves the cursor and the octets of the buffer as they
\* were before the call.
C40_FailureLeavesBuffer ==
    ( /\ op \in {"read_u16", "read_u32", "write_u16", "write_u32"}
      /\ ret.tag = "Err" /\ ret.val.error = "PacketBufferOver512" )
    => pos = pre.pos /\ bytes = pre.bytes

====
